---------------------------- MODULE Spec2Model ----------------------------
(***************************************************************************)
(* Model of the Phoenix SDR controller agent:                              *)
(*   controller.py          ControllerAgent (optimization driver, INI      *)
(*                          result store)                                  *)
(*   telemetry_listener.py  TelemetryListener (UDP receive loop, parsers,  *)
(*                          metric aggregation)                            *)
(*   waterfall_controller.py WaterfallController (parameter client)        *)
(*                                                                         *)
(* Numbers.  A Python float is modelled as a fixed-point number            *)
(*   [m |-> thousandths, e |-> thirds of a millionth within a thousandth,  *)
(*    inf |-> BOOLEAN]                                                     *)
(* so that the value is m/10^3 + e/(3*10^6), 0 <= e < 3000.  The third of  *)
(* a millionth is the part of a float that a "%.6f" rendering rounds away  *)
(* (e % 3 = 1 rounds down, e % 3 = 2 rounds up).  Two limbs keep every     *)
(* value inside TLC's 32-bit integers.                                     *)
(***************************************************************************)
EXTENDS Integers, Sequences, FiniteSets, TLC

(***************************************************************************)
(* Fixed-point numbers                                                     *)
(***************************************************************************)
Fin(m, e) == [m |-> m, e |-> e, inf |-> FALSE]

Inf == [m |-> 0, e |-> 0, inf |-> TRUE]

Milli(m) == Fin(m, 0)

Zero == Fin(0, 0)

NLt(a, b) ==
    /\ ~a.inf
    /\ \/ b.inf
       \/ a.m < b.m
       \/ (a.m = b.m /\ a.e < b.e)

NLe(a, b) == a = b \/ NLt(a, b)

NAdd(a, b) ==
    IF a.inf \/ b.inf THEN Inf
    ELSE LET t == a.e + b.e
         IN  Fin(a.m + b.m + (t \div 3000), t % 3000)

NNeg(a) ==
    IF a.e = 0 THEN Fin(-a.m, 0) ELSE Fin(-a.m - 1, 3000 - a.e)

NSub(a, b) == IF a.inf THEN Inf ELSE NAdd(a, NNeg(b))

NAbs(a) == IF ~a.inf /\ a.m < 0 THEN NNeg(a) ELSE a

NMin(a, b) == IF NLt(b, a) THEN b ELSE a

NMax(a, b) == IF NLt(a, b) THEN b ELSE a

\* x * 2.0
NDouble(a) == NAdd(a, a)

\* x * 0.1, for x >= 0 (the result is cut to the model's resolution)
NTenth(a) ==
    IF a.inf THEN Inf
    ELSE Fin(a.m \div 10, ((a.m % 10) * 3000 + a.e) \div 10)

\* (lo + hi) / 2, for lo, hi >= 0
NHalfSum(a, b) ==
    LET s == NAdd(a, b)
    IN  Fin(s.m \div 2, ((s.m % 2) * 3000 + s.e) \div 2)

\* float(n) of an integer n
NInt(n) == Fin(1000 * n, 0)

\* x * n for an integer n >= 0
NTimes(a, n) ==
    IF a.inf THEN Inf
    ELSE Fin(a.m * n + ((a.e * n) \div 3000), (a.e * n) % 3000)

\* x / n for an integer n > 0 (the result is cut to the model's resolution)
NOver(a, n) ==
    IF a.inf THEN Inf
    ELSE Fin(a.m \div n, ((a.m % n) * 3000 + a.e) \div n)

\* x ** 2: exact for a whole number of thousandths, within 10^-6 otherwise
NSquare(x) ==
    LET a == NAbs(x)
        u == a.m \div 1000
        b == a.m % 1000
        low == 3 * ((b * b) % 1000) + 2 * u * a.e + ((2 * b * a.e) \div 1000)
    IN  Fin(u * u * 1000 + 2 * u * b + ((b * b) \div 1000) + (low \div 3000),
            low % 3000)

\* a / b * 100.0 for durations a, b > 0 that are whole tenths of a second
NPercent(a, b) ==
    LET p == a.m \div 100
        q == b.m \div 100
    IN  Fin((100000 * p) \div q, ((((100000 * p) % q) * 3000) \div q))

(***************************************************************************)
(* Text renderings.  A rendered number is a tagged tuple standing for the  *)
(* string the format produces; two renderings are the same string iff the  *)
(* tuples are equal.                                                       *)
(*   <<"f6", thousandths, millionths>>   f"{x:.6f}"                        *)
(*   <<"f2", hundredths>>                f"{x:.2f}"                        *)
(*   <<"d", units>>                      f"{int(x)}"                       *)
(***************************************************************************)
Fmt6(x) ==
    IF x.inf THEN <<"inf">>
    ELSE LET k == (x.e + 1) \div 3
         IN  IF k = 1000 THEN <<"f6", x.m + 1, 0>> ELSE <<"f6", x.m, k>>

Fmt2(x) ==
    LET c == x.m \div 10
        t == (x.m % 10) * 3000 + x.e
    IN  IF t < 15000 THEN <<"f2", c>>
        ELSE IF t > 15000 THEN <<"f2", c + 1>>
        ELSE IF c % 2 = 0 THEN <<"f2", c>> ELSE <<"f2", c + 1>>

IntTrunc(x) ==
    IF x.m >= 0 THEN x.m \div 1000
    ELSE IF x.e = 0 THEN -((-x.m) \div 1000)
    ELSE -((-x.m - 1) \div 1000)

FmtInt(x) == <<"d", IntTrunc(x)>>

\* float(text) of a rendering: <<x>>, or <<>> for the ValueError
ParseFloat(s) ==
    IF s[1] = "f6" THEN <<Fin(s[2], 3 * s[3])>>
    ELSE IF s[1] = "f2" THEN <<Fin(10 * s[2], 0)>>
    ELSE IF s[1] = "d" THEN <<Fin(1000 * s[2], 0)>>
    ELSE IF s[1] = "inf" THEN <<Inf>>
    ELSE <<>>

(***************************************************************************)
(* WaterfallController: parameter families, names and bounds               *)
(***************************************************************************)
Modes == {"tick", "corr", "marker", "sync", "all"}

PARAM_BOUNDS ==
    [threshold               |-> <<Milli(1000), Milli(5000)>>,
     adapt_down              |-> <<Milli(900), Milli(999)>>,
     adapt_up                |-> <<Milli(1), Milli(100)>>,
     min_duration            |-> <<Milli(1000), Milli(10000)>>,
     confidence              |-> <<Milli(500), Milli(950)>>,
     max_misses              |-> <<Milli(2000), Milli(10000)>>,
     marker_threshold        |-> <<Milli(2000), Milli(5000)>>,
     marker_adapt_rate       |-> <<Fin(0, 300), Milli(10)>>,
     marker_min_duration     |-> <<Milli(300000), Milli(700000)>>,
     sync_weight_tick        |-> <<Milli(10), Milli(200)>>,
     sync_weight_marker      |-> <<Milli(100), Milli(600)>>,
     sync_weight_p_marker    |-> <<Milli(50), Milli(300)>>,
     sync_weight_tick_hole   |-> <<Milli(50), Milli(400)>>,
     sync_weight_combined    |-> <<Milli(200), Milli(800)>>,
     sync_locked_threshold   |-> <<Milli(500), Milli(900)>>,
     sync_min_retain         |-> <<Milli(10), Milli(200)>>,
     sync_tentative_init     |-> <<Milli(100), Milli(500)>>,
     sync_decay_normal       |-> <<Milli(990), Fin(999, 2700)>>,
     sync_decay_recovering   |-> <<Milli(900), Milli(990)>>,
     sync_tick_tolerance     |-> <<Milli(50000), Milli(200000)>>,
     sync_marker_tolerance   |-> <<Milli(200000), Milli(800000)>>,
     sync_p_marker_tolerance |-> <<Milli(100000), Milli(400000)>>]

\* get_param_names(mode): the lists as the function writes them out
GetParamNames(mode) ==
    IF mode = "tick" THEN
        <<"threshold", "adapt_down", "adapt_up", "min_duration">>
    ELSE IF mode = "corr" THEN
        <<"confidence", "max_misses">>
    ELSE IF mode = "marker" THEN
        <<"marker_threshold", "marker_adapt_rate", "marker_min_duration">>
    ELSE IF mode = "sync" THEN
        <<"sync_weight_tick", "sync_weight_marker", "sync_weight_p_marker",
          "sync_weight_tick_hole", "sync_weight_combined",
          "sync_locked_threshold", "sync_min_retain", "sync_tentative_init",
          "sync_decay_normal", "sync_decay_recovering",
          "sync_tick_tolerance", "sync_marker_tolerance", "sync_p_marker_tolerance">>
    ELSE
        <<"threshold", "adapt_down", "adapt_up", "min_duration",
          "confidence", "max_misses",
          "marker_threshold", "marker_adapt_rate", "marker_min_duration",
          "sync_weight_tick", "sync_weight_marker", "sync_weight_p_marker",
          "sync_weight_tick_hole", "sync_weight_combined",
          "sync_locked_threshold", "sync_min_retain", "sync_tentative_init",
          "sync_decay_normal", "sync_decay_recovering",
          "sync_tick_tolerance", "sync_marker_tolerance", "sync_p_marker_tolerance">>

\* get_bounds with the positions of two parameters exchanged
GetBoundsSwapped(mode) ==
    LET keys == GetParamNames(mode)
    IN  [i \in 1..Len(keys) |->
            PARAM_BOUNDS[keys[IF i = 1 THEN 2 ELSE IF i = 2 THEN 1 ELSE i]]]

\* the param_names list of set_parameters_from_array(values, mode)
ArrayParamNames(mode) ==
    IF mode = "tick" THEN
        <<"threshold", "adapt_down", "adapt_up", "min_duration">>
    ELSE IF mode = "corr" THEN
        <<"confidence", "max_misses">>
    ELSE IF mode = "marker" THEN
        <<"marker_threshold", "marker_adapt_rate", "marker_min_duration">>
    ELSE IF mode = "sync" THEN
        <<"sync_weight_tick", "sync_weight_marker", "sync_weight_p_marker",
          "sync_weight_tick_hole", "sync_weight_combined",
          "sync_locked_threshold", "sync_min_retain", "sync_tentative_init",
          "sync_decay_normal", "sync_decay_recovering",
          "sync_tick_tolerance", "sync_marker_tolerance", "sync_p_marker_tolerance">>
    ELSE
        <<"threshold", "adapt_down", "adapt_up", "min_duration",
          "confidence", "max_misses",
          "marker_threshold", "marker_adapt_rate", "marker_min_duration",
          "sync_weight_tick", "sync_weight_marker", "sync_weight_p_marker",
          "sync_weight_tick_hole", "sync_weight_combined",
          "sync_locked_threshold", "sync_min_retain", "sync_tentative_init",
          "sync_decay_normal", "sync_decay_recovering",
          "sync_tick_tolerance", "sync_marker_tolerance", "sync_p_marker_tolerance">>

\* get_bounds(mode): the PARAM_BOUNDS entries the function lists, by key
GetBounds(mode) ==
    LET keys ==
            IF mode = "tick" THEN
                <<"threshold", "adapt_down", "adapt_up", "min_duration">>
            ELSE IF mode = "corr" THEN
                <<"confidence", "max_misses">>
            ELSE IF mode = "marker" THEN
                <<"marker_threshold", "marker_adapt_rate", "marker_min_duration">>
            ELSE IF mode = "sync" THEN
                <<"sync_weight_tick", "sync_weight_marker", "sync_weight_p_marker",
                  "sync_weight_tick_hole", "sync_weight_combined",
                  "sync_locked_threshold", "sync_min_retain", "sync_tentative_init",
                  "sync_decay_normal", "sync_decay_recovering",
                  "sync_tick_tolerance", "sync_marker_tolerance", "sync_p_marker_tolerance">>
            ELSE
                <<"threshold", "adapt_down", "adapt_up", "min_duration",
                  "confidence", "max_misses",
                  "marker_threshold", "marker_adapt_rate", "marker_min_duration",
                  "sync_weight_tick", "sync_weight_marker", "sync_weight_p_marker",
                  "sync_weight_tick_hole", "sync_weight_combined",
                  "sync_locked_threshold", "sync_min_retain", "sync_tentative_init",
                  "sync_decay_normal", "sync_decay_recovering",
                  "sync_tick_tolerance", "sync_marker_tolerance", "sync_p_marker_tolerance">>
    IN  [i \in 1..Len(keys) |-> PARAM_BOUNDS[keys[i]]]

\* dict(zip(names, values)): later duplicates win; the shorter list ends it
ZipDict(names, values) ==
    LET n == IF Len(names) < Len(values) THEN Len(names) ELSE Len(values)
    IN  [k \in {names[i] : i \in 1..n} |->
            LET last == CHOOSE i \in 1..n :
                            /\ names[i] = k
                            /\ \A j \in 1..n : names[j] = k => j <= i
            IN  values[last]]

(***************************************************************************)
(* INI record files (configparser).  A file on disk is                     *)
(*   [exists, secs, torn]                                                  *)
(* secs: the sections in file order, each <<name, <<key, value>>...>> in   *)
(* key order; torn: the text ends inside a line, which configparser        *)
(* refuses to parse.  Byte equality of two files is equality of these      *)
(* records.                                                                *)
(***************************************************************************)
NoFile == [exists |-> FALSE, secs |-> <<>>, torn |-> FALSE]

HasSec(cfg, sec) == \E i \in 1..Len(cfg) : cfg[i][1] = sec

SecIdx(cfg, sec) == CHOOSE i \in 1..Len(cfg) : cfg[i][1] = sec

HasOpt(cfg, sec, key) ==
    /\ HasSec(cfg, sec)
    /\ \E j \in 1..Len(cfg[SecIdx(cfg, sec)][2]) :
           cfg[SecIdx(cfg, sec)][2][j][1] = key

GetOpt(cfg, sec, key) ==
    LET kvs == cfg[SecIdx(cfg, sec)][2]
        j == CHOOSE j \in 1..Len(kvs) : kvs[j][1] = key
    IN  kvs[j][2]

\* the section, key and format _write_ini gives each parameter, in its order
IniTable ==
    << <<"tick", "tick_detector", "threshold", "threshold_multiplier", "f6">>,
       <<"tick", "tick_detector", "adapt_down", "adapt_alpha_down", "f6">>,
       <<"tick", "tick_detector", "adapt_up", "adapt_alpha_up", "f6">>,
       <<"tick", "tick_detector", "min_duration", "min_duration_ms", "f2">>,
       <<"corr", "tick_correlator", "confidence", "epoch_confidence_threshold", "f6">>,
       <<"corr", "tick_correlator", "max_misses", "max_consecutive_misses", "d">>,
       <<"marker", "marker_detector", "marker_threshold", "threshold_multiplier", "f6">>,
       <<"marker", "marker_detector", "marker_adapt_rate", "noise_adapt_rate", "f6">>,
       <<"marker", "marker_detector", "marker_min_duration", "min_duration_ms", "f2">>,
       <<"sync", "sync_detector", "sync_weight_tick", "weight_tick", "f6">>,
       <<"sync", "sync_detector", "sync_weight_marker", "weight_marker", "f6">>,
       <<"sync", "sync_detector", "sync_weight_p_marker", "weight_p_marker", "f6">>,
       <<"sync", "sync_detector", "sync_weight_tick_hole", "weight_tick_hole", "f6">>,
       <<"sync", "sync_detector", "sync_weight_combined", "weight_combined_hole_marker", "f6">>,
       <<"sync", "sync_detector", "sync_locked_threshold", "confidence_locked_threshold", "f6">>,
       <<"sync", "sync_detector", "sync_min_retain", "confidence_min_retain", "f6">>,
       <<"sync", "sync_detector", "sync_tentative_init", "confidence_tentative_init", "f6">>,
       <<"sync", "sync_detector", "sync_decay_normal", "confidence_decay_normal", "f6">>,
       <<"sync", "sync_detector", "sync_decay_recovering", "confidence_decay_recovering", "f6">>,
       <<"sync", "sync_detector", "sync_tick_tolerance", "tick_phase_tolerance_ms", "f2">>,
       <<"sync", "sync_detector", "sync_marker_tolerance", "marker_tolerance_ms", "f2">>,
       <<"sync", "sync_detector", "sync_p_marker_tolerance", "p_marker_tolerance_ms", "f2">> >>

Render(fmt, x) ==
    IF fmt = "f6" THEN Fmt6(x)
    ELSE IF fmt = "f2" THEN Fmt2(x)
    ELSE FmtInt(x)

\* a _write_ini that creates the section of every family, whatever the mode
TouchedSecsEvery(mode) ==
    <<"tick_detector", "tick_correlator", "marker_detector", "sync_detector",
      "optimization_meta">>

\* the sections _write_ini touches for a mode, in the order it touches them
TouchedSecs(mode) ==
    SelectSeq(<<"tick_detector", "tick_correlator", "marker_detector", "sync_detector">>,
              LAMBDA sec : \E i \in 1..Len(IniTable) :
                               /\ IniTable[i][2] = sec
                               /\ (mode = IniTable[i][1] \/ mode = "all"))
    \o <<"optimization_meta">>

\* the assignments config[sec][key] = text that _write_ini makes, in its order
Assignments(sec, dict, mode, score, now) ==
    IF sec = "optimization_meta"
    THEN << <<"last_mode", <<"s", mode>> >>,
            <<"last_score", Fmt6(score)>>,
            <<"last_run", <<"ts", now>> >>,
            <<mode \o "_best_score", Fmt6(score)>> >>
    ELSE LET rows == SelectSeq(IniTable,
                        LAMBDA t : /\ t[2] = sec
                                   /\ (mode = t[1] \/ mode = "all")
                                   /\ t[3] \in DOMAIN dict)
         IN  [i \in 1..Len(rows) |->
                 <<rows[i][4], Render(rows[i][5], dict[rows[i][3]])>>]

\* a section's options after the assignments: a key already there keeps its
\* place, a new key is appended
Assign(kvs, asg) ==
    LET AsgOf(key) == CHOOSE j \in 1..Len(asg) : asg[j][1] = key
        kept == [j \in 1..Len(kvs) |->
                    IF \E i \in 1..Len(asg) : asg[i][1] = kvs[j][1]
                    THEN asg[AsgOf(kvs[j][1])]
                    ELSE kvs[j]]
        added == SelectSeq(asg, LAMBDA a : \A j \in 1..Len(kvs) : kvs[j][1] # a[1])
    IN  kept \o added

\* the ConfigParser _write_ini builds from the file's content, before writing:
\* a missing section is created at the end, in the order of TouchedSecs
IniConfig(file, params, names, mode, score, now) ==
    LET cfg == IF file.exists THEN file.secs ELSE <<>>
        dict == ZipDict(names, params)
        fresh == SelectSeq(TouchedSecs(mode), LAMBDA sec : ~HasSec(cfg, sec))
        all == cfg \o [i \in 1..Len(fresh) |-> <<fresh[i], <<>>>>]
        touched == {TouchedSecs(mode)[i] : i \in 1..Len(TouchedSecs(mode))}
    IN  [i \in 1..Len(all) |->
            IF all[i][1] \in touched
            THEN <<all[i][1],
                   Assign(all[i][2], Assignments(all[i][1], dict, mode, score, now))>>
            ELSE all[i]]

\* configparser raises on a file it cannot parse
ReadRaises(file) == file.exists /\ file.torn

\* _get_existing_score(filepath, mode): <<score>> or <<>> (None)
GetExistingScore(file, mode) ==
    IF ~file.exists THEN <<>>
    ELSE LET cfg == file.secs
             key == mode \o "_best_score"
             first == IF HasOpt(cfg, "optimization_meta", key)
                      THEN ParseFloat(GetOpt(cfg, "optimization_meta", key))
                      ELSE <<>>
         IN  IF first # <<>> THEN first
             ELSE IF /\ HasOpt(cfg, "optimization_meta", "last_mode")
                     /\ GetOpt(cfg, "optimization_meta", "last_mode") = <<"s", mode>>
                  THEN IF HasOpt(cfg, "optimization_meta", "last_score")
                       THEN ParseFloat(GetOpt(cfg, "optimization_meta", "last_score"))
                       ELSE <<Inf>>
                  ELSE <<>>

\* a slip that would always rewrite the overall best
ShouldUpdateBestAlways(existing, score) == TRUE

\* the test of save_to_ini that decides whether the overall best is rewritten
ShouldUpdateBest(existing, score) == existing = <<>> \/ NLt(score, existing[1])

(***************************************************************************)
(* TelemetryListener: datagrams and parsers                                *)
(*                                                                         *)
(* A datagram is [utf8, tokens]: whether the bytes decode, and the comma-  *)
(* separated tokens of the stripped text (<<>>: the text is empty).  A     *)
(* token is [k, s, n, i]: k = "empty" for "", "int" for integer text,      *)
(* "dec" for other text float() accepts, "txt" for text neither float()    *)
(* nor int() accepts; s names the text, n is float(text), i is int(text).  *)
(***************************************************************************)
TTxt(s) == [k |-> "txt", s |-> s, n |-> Zero, i |-> 0]

TInt(s, i) == [k |-> "int", s |-> s, n |-> Milli(1000 * i), i |-> i]

TDec(s, n) == [k |-> "dec", s |-> s, n |-> n, i |-> 0]

EmptyMap == [k \in {} |-> 0]

\* whether the conversion the parser applies to a field returns (does not raise
\* ValueError): fields[j], float(fields[j]) if fields[j] else 0.0, int(...) ...
ConvOk(tok, conv) ==
    IF conv = "str" THEN TRUE
    ELSE IF conv = "float" THEN tok.k \in {"empty", "int", "dec"}
    ELSE tok.k \in {"empty", "int"}

Conv(tok, conv) ==
    IF conv = "str" THEN tok
    ELSE IF conv = "float" THEN tok.n
    ELSE tok.i

\* the assignments parsed[key] = conv(fields[j]) of a parser block, in order,
\* as <<key, j, conv>> (j counts from 1)
CorrFields ==
    << <<"time_str", 1, "str">>, <<"timestamp_ms", 2, "float">>,
       <<"tick_num", 3, "int">>, <<"expected", 4, "str">>,
       <<"energy_peak", 5, "float">>, <<"duration_ms", 6, "float">>,
       <<"interval_ms", 7, "float">>, <<"avg_interval_ms", 8, "float">>,
       <<"noise_floor", 9, "float">>, <<"corr_peak", 10, "float">>,
       <<"corr_ratio", 11, "float">>, <<"chain_id", 12, "int">>,
       <<"chain_length", 13, "int">>, <<"chain_start_ms", 14, "float">>,
       <<"cumulative_drift_ms", 15, "float">> >>

MarkFields ==
    << <<"time_str", 1, "str">>, <<"timestamp_ms", 2, "float">>,
       <<"marker_num", 3, "int">>, <<"peak_energy", 4, "float">>,
       <<"duration_ms", 5, "float">>, <<"since_last_sec", 6, "float">>,
       <<"confidence", 7, "str">> >>

SyncFields(n) ==
    IF n >= 3
    THEN << <<"state", 1, "str">>, <<"confidence", 2, "float">>, <<"reason", 3, "str">> >>
    ELSE IF n >= 2
    THEN << <<"state", 1, "str">>, <<"confidence", 2, "float">> >>
    ELSE <<>>

TickFields(n) ==
    IF n >= 2 THEN << <<"tick_type", 1, "str">>, <<"sample_offset", 2, "int">> >>
    ELSE IF n >= 1 THEN << <<"tick_type", 1, "str">> >>
    ELSE <<>>

ChanFields(n) ==
    SubSeq(<< <<"carrier_db", 1, "float">>, <<"snr_db", 2, "float">>,
              <<"noise_db", 3, "float">> >>, 1, IF n < 3 THEN n ELSE 3)

\* how many of the assignments run before one raises
Done(fields, rows) ==
    IF \A r \in 1..Len(rows) : ConvOk(fields[rows[r][2]], rows[r][3])
    THEN Len(rows)
    ELSE (CHOOSE r \in 1..Len(rows) :
             /\ ~ConvOk(fields[rows[r][2]], rows[r][3])
             /\ \A q \in 1..(r - 1) : ConvOk(fields[rows[q][2]], rows[q][3])) - 1

\* the map the first n assignments leave in parsed
Assigned(fields, rows, n) ==
    [key \in {rows[r][1] : r \in 1..n} |->
        LET r == CHOOSE r \in 1..n : rows[r][1] = key
        IN  Conv(fields[rows[r][2]], rows[r][3])]

\* a parser block run on the fields: [raised, parsed]
RunBlock(fields, rows) ==
    [raised |-> Done(fields, rows) < Len(rows),
     parsed |-> Assigned(fields, rows, Done(fields, rows))]

NominalIntervalMs == Milli(1000000)

\* _parse_channel_data(channel, data): [raised, parsed]; raised, an exception
\* leaves the function
ParseChannelData(channel, fields) ==
    IF channel = "CORR" THEN
        IF Len(fields) >= 15
        THEN LET b == RunBlock(fields, CorrFields)
             IN  IF b.raised THEN [raised |-> FALSE, parsed |-> b.parsed]
                 ELSE [raised |-> FALSE,
                       parsed |-> [key \in DOMAIN b.parsed \cup {"interval_error_ms"} |->
                                     IF key = "interval_error_ms"
                                     THEN NAbs(NSub(b.parsed["interval_ms"], NominalIntervalMs))
                                     ELSE b.parsed[key]]]
        ELSE [raised |-> FALSE, parsed |-> EmptyMap]
    ELSE IF channel = "TICK" THEN RunBlock(fields, TickFields(Len(fields)))
    ELSE IF channel = "CHAN" THEN RunBlock(fields, ChanFields(Len(fields)))
    ELSE IF channel = "RESP" THEN
        [raised |-> FALSE, parsed |-> [key \in {"response"} |-> fields]]
    ELSE IF channel = "MARK" THEN
        IF Len(fields) >= 8
        THEN [raised |-> FALSE, parsed |-> RunBlock(fields, MarkFields).parsed]
        ELSE [raised |-> FALSE, parsed |-> EmptyMap]
    ELSE IF channel = "SYNC" THEN
        [raised |-> FALSE, parsed |-> RunBlock(fields, SyncFields(Len(fields))).parsed]
    ELSE [raised |-> FALSE, parsed |-> EmptyMap]

\* data.split(',') if data else []: the tokens after the channel; the text
\* "CHANNEL," has the empty remainder and so no fields
FieldsOf(tokens) ==
    IF Len(tokens) <= 1 \/ (Len(tokens) = 2 /\ tokens[2].k = "empty")
    THEN <<>>
    ELSE Tail(tokens)

\* the body of the try block of _parse_message: [exc, msg], exc the exception
\* it raises ("" for none), msg the value it returns (<<>> for None)
ParseMessageBody(d, now) ==
    IF ~d.utf8 THEN [exc |-> "UnicodeDecodeError", msg |-> <<>>]
    ELSE IF d.tokens = <<>> \/ (Len(d.tokens) = 1 /\ d.tokens[1].k = "empty")
    THEN [exc |-> "", msg |-> <<>>]
    ELSE LET channel == d.tokens[1].s
             fields == FieldsOf(d.tokens)
             p == ParseChannelData(channel, fields)
         IN  IF p.raised THEN [exc |-> "ValueError", msg |-> <<>>]
             ELSE [exc |-> "",
                   msg |-> <<[channel |-> channel, timestamp |-> now,
                              data |-> fields, parsed |-> p.parsed]>>]

\* a _parse_message without its "except Exception": the exception escapes
ParseMessageNoCatch(d, now) ==
    [raised |-> ParseMessageBody(d, now).exc # "", msg |-> ParseMessageBody(d, now).msg]

\* _parse_message(data): [raised, msg]; every exception of the body is caught
\* and turned into None
ParseMessage(d, now) ==
    [raised |-> FALSE, msg |-> ParseMessageBody(d, now).msg]

(***************************************************************************)
(* The datagrams the model feeds the listener                              *)
(***************************************************************************)
Text(tokens) == [utf8 |-> TRUE, tokens |-> tokens]

Undecodable == [utf8 |-> FALSE, tokens |-> <<>>]

EmptyText == Text(<<>>)

\* CORR,<time>,<ts>,<tick>,<expected>,<energy>,<dur>,<interval>,<avg>,<noise>,
\*      <peak>,<ratio>,<chain id>,<chain length>,<chain start>,<drift>
Corr(interval, ratio, chain, drift) ==
    Text(<<TTxt("CORR"), TTxt("12:00:01"), TDec("ts", Milli(5000)), TInt("n", 7),
           TTxt("Y"), TDec("energy", Milli(1500)), TDec("dur", Milli(5000)),
           TDec("interval", interval), TDec("avg", Milli(1000000)),
           TDec("noise", Milli(10)), TDec("peak", Milli(800)),
           TDec("ratio", ratio), TInt("id", 1), TInt("len", chain),
           TDec("start", Zero), TDec("drift", drift)>>)

\* the datagram with token j replaced
WithToken(d, j, tok) ==
    Text([q \in 1..Len(d.tokens) |-> IF q = j THEN tok ELSE d.tokens[q]])

\* the datagram cut to its first n tokens
CutTo(d, n) == Text(SubSeq(d.tokens, 1, n))

CorrGood == Corr(Fin(1000200, 2), Milli(900), 12, Milli(30))

\* MARK,<time>,<ts>,<num>,<peak energy>,<duration>,<since last>,<confidence>,<...>
Mark(duration) ==
    Text(<<TTxt("MARK"), TTxt("12:01:00"), TDec("ts", Milli(60000)), TInt("n", 1),
           TDec("energy", Milli(2500)), TDec("dur", duration),
           TDec("since", Milli(60000)), TTxt("HIGH"), TDec("base", Milli(100))>>)

MarkGood == Mark(Milli(800000))

\* SYNC,<state>,<confidence>[,<reason>]
Sync(state, confidence) == Text(<<TTxt("SYNC"), TTxt(state), TDec("conf", confidence)>>)

ChanGood ==
    Text(<<TTxt("CHAN"), TDec("carrier", Milli(-20000)), TDec("snr", Milli(15000)),
           TDec("noise", Milli(-35000))>>)

TickGood == Text(<<TTxt("TICK"), TTxt("TICK"), TInt("offset", 480)>>)

\* what the listener of ListenerSpec may receive: well-formed, cut short and
\* corrupt datagrams of every parsed channel
Datagrams ==
    { Undecodable, EmptyText,
      CorrGood,
      CutTo(CorrGood, 4),
      CutTo(CorrGood, 1),
      WithToken(CorrGood, 8, TTxt("bad")),
      WithToken(CorrGood, 4, TDec("1.5", Milli(1500))),
      MarkGood,
      CutTo(MarkGood, 8),
      WithToken(MarkGood, 6, TTxt("bad")),
      Sync("LOCKED", Milli(800)),
      Sync("SEARCHING", Milli(100)),
      WithToken(Sync("LOCKED", Milli(800)), 3, TTxt("bad")),
      CutTo(Sync("LOCKED", Milli(800)), 2),
      ChanGood,
      CutTo(ChanGood, 2),
      WithToken(ChanGood, 3, TTxt("bad")),
      TickGood,
      WithToken(TickGood, 3, TTxt("bad")),
      Text(<<TTxt("RESP"), TTxt("OK")>>),
      Text(<<TTxt("CARR"), TDec("hz", Milli(100))>>) }

(***************************************************************************)
(* TelemetryListener: the metrics the objectives read                      *)
(***************************************************************************)
\* dict.get(key, default)
Get(map, key, default) == IF key \in DOMAIN map THEN map[key] ELSE default

\* get_correlation_metrics(): the parsed map of the latest CORR message, {}
\* when there is none or its map is empty
GetCorrelationMetrics(lat) ==
    IF "CORR" \in DOMAIN lat /\ DOMAIN lat["CORR"].parsed # {}
    THEN lat["CORR"].parsed
    ELSE EmptyMap

RECURSIVE NSum(_)
NSum(xs) == IF xs = <<>> THEN Zero ELSE NAdd(Head(xs), NSum(Tail(xs)))

\* a get_marker_metrics without the penalty for a missing interval
GetMarkerMetricsNoPenalty(events) ==
    LET count == Len(events)
        durations == [i \in 1..count |-> Get(events[i].parsed, "duration_ms", Zero)]
        avg_duration == IF count > 0 THEN NOver(NSum(durations), count) ELSE Zero
        intervals == [i \in 1..(count - 1) |->
                         NInt(events[i + 1].timestamp - events[i].timestamp)]
        avg_interval == IF count > 1 THEN NOver(NSum(intervals), count - 1) ELSE Zero
    IN  [count |-> count, avg_duration_ms |-> avg_duration,
         duration_variance |-> Zero,
         avg_interval_sec |-> avg_interval,
         interval_error_sec |-> IF count > 1 THEN NAbs(NSub(avg_interval, NInt(60)))
                                ELSE Zero]

\* get_marker_metrics()
GetMarkerMetrics(events) ==
    IF events = <<>>
    THEN [count |-> 0, avg_duration_ms |-> Zero, duration_variance |-> Zero,
          avg_interval_sec |-> Zero, interval_error_sec |-> NInt(60)]
    ELSE LET count == Len(events)
             durations == [i \in 1..count |-> Get(events[i].parsed, "duration_ms", Zero)]
             avg_duration == NOver(NSum(durations), count)
             duration_var ==
                 IF count > 1
                 THEN NOver(NSum([i \in 1..count |->
                                    NSquare(NSub(durations[i], avg_duration))]), count)
                 ELSE Zero
             intervals == [i \in 1..(count - 1) |->
                              NInt(events[i + 1].timestamp - events[i].timestamp)]
             avg_interval == IF count > 1 THEN NOver(NSum(intervals), count - 1) ELSE Zero
             interval_error == IF count > 1 THEN NAbs(NSub(avg_interval, NInt(60)))
                               ELSE NInt(60)
         IN  [count |-> count, avg_duration_ms |-> avg_duration,
              duration_variance |-> duration_var,
              avg_interval_sec |-> avg_interval,
              interval_error_sec |-> interval_error]

\* the 0.1 s the last state is assumed to last
LastStateSec == Milli(100)

\* a get_sync_metrics whose time_to_lock is set again at every LOCKED sample
GetSyncMetricsLastLock(states) ==
    IF states = <<>>
    THEN [locked_pct |-> Zero, avg_confidence |-> Zero, state_changes |-> 0,
          time_to_lock |-> Inf]
    ELSE LET n == Len(states)
             locked == {i \in 1..n : states[i].state = "LOCKED"}
             last == CHOOSE i \in locked : \A j \in locked : j <= i
         IN  [locked_pct |-> IF locked = {} THEN Zero ELSE NInt(100),
              avg_confidence |-> NOver(NSum([i \in 1..n |-> states[i].confidence]), n),
              state_changes |->
                  Cardinality({i \in 2..n : states[i].state # states[i - 1].state}),
              time_to_lock |->
                  IF locked = {} THEN Inf
                  ELSE NInt(states[last].timestamp - states[1].timestamp)]

\* get_sync_metrics()
GetSyncMetrics(states) ==
    IF states = <<>>
    THEN [locked_pct |-> Zero, avg_confidence |-> Zero, state_changes |-> 0,
          time_to_lock |-> Inf]
    ELSE LET n == Len(states)
             duration == [i \in 1..n |->
                             IF i < n
                             THEN NInt(states[i + 1].timestamp - states[i].timestamp)
                             ELSE LastStateSec]
             total_time == NSum(duration)
             locked_time == NSum([i \in 1..n |->
                                    IF states[i].state = "LOCKED" THEN duration[i]
                                    ELSE Zero])
             locked == {i \in 1..n : states[i].state = "LOCKED"}
             first == CHOOSE i \in locked : \A j \in locked : i <= j
         IN  [locked_pct |-> IF NLt(Zero, total_time)
                             THEN NPercent(locked_time, total_time) ELSE Zero,
              avg_confidence |-> NOver(NSum([i \in 1..n |-> states[i].confidence]), n),
              state_changes |->
                  Cardinality({i \in 2..n : states[i].state # states[i - 1].state}),
              time_to_lock |->
                  IF locked = {} THEN Inf
                  ELSE NInt(states[first].timestamp - states[1].timestamp)]

(***************************************************************************)
(* ControllerAgent: the objectives                                         *)
(***************************************************************************)
settle_time == 2

marker_eval_time == 180

marker_count_target == 3

sync_eval_time == 60

\* the score objective_function computes from the CORR metrics (modes tick,
\* corr and all); 1000.0 when there are none
TickScore(metrics) ==
    IF DOMAIN metrics = {} THEN NInt(1000)
    ELSE LET interval_error == Get(metrics, "interval_error_ms", NInt(1000))
             drift == NAbs(Get(metrics, "cumulative_drift_ms", Zero))
             chain_length == Get(metrics, "chain_length", 0)
             chain_bonus == NMin(Milli(100 * chain_length), NInt(5))
             corr_ratio == Get(metrics, "corr_ratio", Zero)
             corr_penalty == NMax(Zero, NDouble(NSub(NInt(1), corr_ratio)))
         IN  NAdd(NSub(NAdd(interval_error, NTenth(drift)), chain_bonus), corr_penalty)

\* the score marker_objective_function computes elapsed seconds after the
\* collection began; 1000.0 when no marker was counted
MarkerScore(metrics, elapsed) ==
    IF metrics.count = 0 THEN NInt(1000)
    ELSE LET expected == (elapsed \div 60) + 1
             detection_penalty == NInt((expected - metrics.count) * 100)
             interval_error == NTimes(metrics.interval_error_sec, 10)
             duration_var == NOver(metrics.duration_variance, 100)
             duration_error == NTenth(NAbs(NSub(metrics.avg_duration_ms, NInt(800))))
         IN  NAdd(NAdd(NAdd(detection_penalty, interval_error), duration_var),
                  duration_error)

\* the score sync_objective_function computes
SyncScore(metrics) ==
    LET pct_penalty == NSub(NInt(100), metrics.locked_pct)
        stability_penalty == NInt(metrics.state_changes * 2)
        lock_time_penalty == NOver(NMin(metrics.time_to_lock, NInt(60)), 6)
        confidence_bonus ==
            IF NLt(metrics.avg_confidence, Zero)
            THEN NNeg(NTimes(NNeg(metrics.avg_confidence), 5))
            ELSE NTimes(metrics.avg_confidence, 5)
    IN  NSub(NAdd(NAdd(pct_penalty, stability_penalty), lock_time_penalty),
             confidence_bonus)

(***************************************************************************)
(* Bounds of the model                                                     *)
(***************************************************************************)
\* candidate vectors per mode
NumCand == 2

\* wall-clock seconds the model lets pass
MaxClock == 1

\* save_to_ini calls in a behaviour of StoreSpec
MaxCalls == 3

\* datagrams the listener receives in a behaviour of ListenerSpec
MaxRecv == 2

\* scores handed to save_to_ini directly: ScoreOf(0..MaxScoreIx)
MaxScoreIx == 3

\* objective evaluations in a behaviour of Spec
MaxEvals == 2

\* optimize() calls in a behaviour of Spec
MaxRuns == 2

\* the largest max_iterations optimize() is called with
MaxIter == 2

\* candidate k of a parameter: its lower bound plus k * (0.001 + 2/3 * 10^-6),
\* so that both rounding directions of "%.6f" occur; for max_misses its lower
\* bound plus k * 0.7, so that int() cuts fractions above and below one half
CandVal(name, k) ==
    IF name = "max_misses" THEN NAdd(PARAM_BOUNDS[name][1], Fin(700 * k, 0))
    ELSE NAdd(PARAM_BOUNDS[name][1], Fin(k, (2 * k) % 3))

CandVec(mode, k) ==
    [i \in 1..Len(GetParamNames(mode)) |-> CandVal(GetParamNames(mode)[i], k)]

\* 0, 1/3 and 2/3 of a millionth, 0.001, ...: exact, rounding down, rounding up
ScoreOf(i) == Fin(i \div 3, i % 3)

ScoreSet == {ScoreOf(i) : i \in 0..MaxScoreIx}

(***************************************************************************)
(* State                                                                   *)
(***************************************************************************)
VARIABLES
    clock,          \* wall-clock second (time.time, time.strftime)
    \* the record files
    ini,            \* optimized_params.ini (ini_path)
    last_run,       \* last_run.ini (last_run_path)
    lastCall,       \* history: the arguments of the latest save_to_ini call
    calls,          \* history: save_to_ini calls made (StoreSpec)
    \* TelemetryListener
    running,        \* self.running
    shpc,           \* the interactive shell of main(): prompt, t_print
    sock,           \* self.socket: "none" (None) or "open"
    latest,         \* self.latest: channel -> TelemetryMessage
    marker_events,  \* self.marker_events
    sync_states,    \* self.sync_states
    message_queue,  \* self.message_queue: the number of messages queued
    lpc,            \* the receive thread: none, check, recv, handle, callback,
                    \* exited, crashed
    cur,            \* the datagram (then the message) the thread holds
    spc,            \* stop(): idle, join, close, done
    handled,        \* history: what became of each datagram received
    crashCause,     \* history: what ended the thread, "" while none did
    recvsAfterStop, \* history: recvfrom calls begun after stop() cleared running
    stopAt,         \* history: where the thread was when stop() cleared running
    \* ControllerAgent and the minimizer
    opc,            \* idle, minimizing (inside minimize, between evaluations),
                    \* collect, save_last, save_best, returned, raised
    opt_mode,       \* self._opt_mode
    max_iterations, \* the max_iterations argument of optimize()
    initial_params, \* the initial_params argument of optimize(): <<>> is None
    x0,             \* the starting vector optimize() hands to minimize
    optimization_running,
    eval_count,     \* self.eval_count
    best_score,     \* self.best_score
    best_params,    \* self.best_params
    cand,           \* the vector the minimizer handed to the objective
    start_time,     \* when the evaluation began to collect
    scored,         \* <<the score the latest evaluation computed>>
    samples,        \* history: the telemetry samples that score was computed from
    metrics,        \* history: <<the metrics the latest evaluation read>>
    results,        \* history: the evaluations of the run that have returned
    remote,         \* <<the latest set_parameters_from_array the pipeline was sent>>
    endedBy,        \* history: how the latest optimize() ended
    evals,          \* history: evaluations begun
    runs,           \* history: optimize() calls
    lastWrite,      \* history: <<the latest _write_ini: path, file before, file meant>>
    \* the locks of TelemetryListener
    held,           \* per thread, the locks it holds
    plan,           \* per thread, the acquires and releases left of the method it is in
    \* the relay client and its server
    relay,          \* SDRRelayController, its TCP stream and the server behind it
    \* the control client
    sdr             \* SDRController and what _send_command has returned

storeVars == <<ini, last_run, lastCall, calls>>

listenerVars ==
    <<running, shpc, sock, latest, marker_events, sync_states, message_queue,
      lpc, cur, spc, handled, crashCause, recvsAfterStop, stopAt>>

driverVars ==
    <<opc, opt_mode, max_iterations, initial_params, x0, optimization_running, eval_count, best_score, best_params,
      cand, start_time, scored, samples, metrics, results, remote, endedBy, evals, runs,
      lastWrite>>

\* beside the optimizer: the locks of TelemetryListener, the relay client
\* (relay_controller.py) and the control client (sdr_controller.py)
sideVars == <<held, plan, relay, sdr>>

vars == <<clock, storeVars, listenerVars, driverVars, sideVars>>

StoreInit ==
    /\ ini = NoFile
    /\ last_run = NoFile
    /\ lastCall = <<>>
    /\ calls = 0

\* TelemetryListener.__init__
ListenerInit ==
    /\ running = FALSE
    /\ shpc = "prompt"
    /\ sock = "none"
    /\ latest = EmptyMap
    /\ marker_events = <<>>
    /\ sync_states = <<>>
    /\ message_queue = 0
    /\ lpc = "none"
    /\ cur = <<>>
    /\ spc = "idle"
    /\ handled = <<>>
    /\ crashCause = ""
    /\ recvsAfterStop = 0
    /\ stopAt = ""

\* ControllerAgent.__init__
DriverInit ==
    /\ opc = "idle"
    /\ opt_mode = "tick"
    /\ max_iterations = 100
    /\ initial_params = <<>>
    /\ x0 = <<>>
    /\ optimization_running = FALSE
    /\ eval_count = 0
    /\ best_score = Inf
    /\ best_params = <<>>
    /\ cand = <<>>
    /\ start_time = 0
    /\ scored = <<>>
    /\ samples = 0
    /\ metrics = <<>>
    /\ results = <<>>
    /\ remote = <<>>
    /\ endedBy = ""
    /\ evals = 0
    /\ runs = 0
    /\ lastWrite = <<>>

Init ==
    /\ clock = 0 /\ StoreInit /\ ListenerInit /\ DriverInit
    \* no thread holds a lock or is inside a listener method
    /\ held = [t \in {"listener", "main"} |-> {}]
    /\ plan = [t \in {"listener", "main"} |-> <<>>]
    \* SDRRelayController.__init__, then connect()
    /\ relay = [connected |-> TRUE, sent |-> 0, waiting |-> 0,
                server |-> <<>>, wire |-> <<>>, returned |-> <<>>]
    \* SDRController.__init__
    /\ sdr = [socket |-> "none", returned |-> <<>>]

OnDisk(cfg) == [exists |-> TRUE, secs |-> cfg, torn |-> FALSE]

\* a _write_ini that records a zero score whatever score it is given
WriteIniDropsScore(file, params, names, mode, score, now) ==
    OnDisk(IniConfig(file, params, names, mode, Zero, now))

\* the file _write_ini(filepath, ...) leaves when it runs to its end
WriteIni(file, params, names, mode, score, now) ==
    OnDisk(IniConfig(file, params, names, mode, score, now))

\* optimized_params.ini after save_to_ini(params, names, mode, score)
SavedBest(file, params, names, mode, score, now) ==
    IF ShouldUpdateBest(GetExistingScore(file, mode), score)
    THEN WriteIni(file, params, names, mode, score, now)
    ELSE file

(***************************************************************************)
(* StoreSpec: the result store called directly, each call run to its end   *)
(***************************************************************************)
SaveToIni(mode, k, score) ==
    /\ calls < MaxCalls
    /\ last_run' = WriteIni(last_run, CandVec(mode, k), GetParamNames(mode),
                            mode, score, clock)
    /\ ini' = SavedBest(ini, CandVec(mode, k), GetParamNames(mode),
                        mode, score, clock)
    /\ lastCall' = <<[mode |-> mode, k |-> k, score |-> score]>>
    /\ calls' = calls + 1
    /\ UNCHANGED sideVars
    /\ UNCHANGED <<clock, listenerVars, driverVars>>

\* a second passes
Tick ==
    /\ clock < MaxClock
    /\ clock' = clock + 1
    /\ UNCHANGED sideVars
    /\ UNCHANGED <<storeVars, listenerVars, driverVars>>

StoreNext ==
    \/ \E mode \in Modes, k \in 1..NumCand, score \in ScoreSet :
          SaveToIni(mode, k, score)
    \/ Tick

StoreSpec == Init /\ [][StoreNext]_vars

(***************************************************************************)
(* ListenerSpec: start(), the receive thread and stop()                    *)
(***************************************************************************)
QueueCapacity == 1000

\* start(callback): the socket is bound with a 1 s timeout and the thread starts
ListenerStart ==
    /\ lpc = "none" /\ spc = "idle"
    /\ sock' = "open"
    /\ running' = TRUE
    /\ lpc' = "check"
    /\ UNCHANGED sideVars
    /\ UNCHANGED <<clock, storeVars, driverVars, shpc, latest, marker_events,
                   sync_states, message_queue, cur, spc, handled, crashCause,
                   recvsAfterStop, stopAt>>

\* a loop that never reads the stop flag
LoopContinuesAlways == TRUE

\* while self.running
LoopContinues == running

LoopCheck ==
    /\ lpc = "check"
    /\ lpc' = IF LoopContinues THEN "recv" ELSE "exited"
    /\ recvsAfterStop' = IF LoopContinues /\ spc # "idle" /\ recvsAfterStop < MaxRecv + 2
                          THEN recvsAfterStop + 1 ELSE recvsAfterStop
    /\ UNCHANGED sideVars
    /\ UNCHANGED <<clock, storeVars, driverVars, running, shpc, sock, latest, marker_events,
                   sync_states, message_queue, cur, spc, handled, crashCause, stopAt>>

\* recvfrom returns a datagram
RecvDatagram(d) ==
    /\ lpc = "recv" /\ sock = "open"
    /\ Len(handled) < MaxRecv
    /\ cur' = <<d>>
    /\ lpc' = "handle"
    /\ UNCHANGED sideVars
    /\ UNCHANGED <<clock, storeVars, driverVars, running, shpc, sock, latest, marker_events,
                   sync_states, message_queue, spc, handled, crashCause,
                   recvsAfterStop, stopAt>>

\* recvfrom raises socket.timeout after the 1 s poll interval: continue
RecvTimeout ==
    /\ lpc = "recv" /\ sock = "open"
    /\ lpc' = "check"
    /\ UNCHANGED sideVars
    /\ UNCHANGED <<clock, storeVars, driverVars, running, shpc, sock, latest, marker_events,
                   sync_states, message_queue, cur, spc, handled, crashCause,
                   recvsAfterStop, stopAt>>

\* recvfrom raises another socket.error: re-raised while running
RecvError ==
    /\ lpc = "recv" /\ sock = "open"
    /\ lpc' = IF running THEN "crashed" ELSE "check"
    /\ crashCause' = IF running THEN "socket" ELSE crashCause
    /\ UNCHANGED sideVars
    /\ UNCHANGED <<clock, storeVars, driverVars, running, shpc, sock, latest, marker_events,
                   sync_states, message_queue, cur, spc, handled, recvsAfterStop, stopAt>>

\* recvfrom on the socket stop() has closed and set to None: socket.error
\* (swallowed, running is false) or AttributeError on None
RecvReleased ==
    /\ lpc = "recv" /\ sock = "none"
    /\ \/ lpc' = "check" /\ UNCHANGED crashCause
       \/ lpc' = "crashed" /\ crashCause' = "released"
    /\ UNCHANGED sideVars
    /\ UNCHANGED <<clock, storeVars, driverVars, running, shpc, sock, latest, marker_events,
                   sync_states, message_queue, cur, spc, handled, recvsAfterStop, stopAt>>

\* a loop that queues the message whether the queue is full or not
EnqueueAlways(queued) == queued + 1

\* if not self.message_queue.full(): self.message_queue.put(msg)
Enqueue(queued) ==
    IF queued < QueueCapacity THEN queued + 1 ELSE queued

\* a store that forgets the other channels
StoreLatestOnly(map, msg) == [c \in {msg.channel} |-> msg]

\* self.latest after the message is stored
StoreLatest(map, msg) ==
    [c \in DOMAIN map \cup {msg.channel} |-> IF c = msg.channel THEN msg ELSE map[c]]

\* the entry appended to sync_states
SyncSample(msg) ==
    [timestamp |-> msg.timestamp,
     state |-> IF "state" \in DOMAIN msg.parsed THEN msg.parsed["state"].s ELSE "UNKNOWN",
     confidence |-> IF "confidence" \in DOMAIN msg.parsed
                    THEN msg.parsed["confidence"] ELSE Zero]

\* the loop body after recvfrom for the datagram d: parse, store, queue.  The
\* message is stored with self.lock held, which the shell holds while it
\* prints the latest messages
Stores(d) ==
    LET r == ParseMessage(d, clock)
        msg == r.msg[1]
    IN  IF r.raised
        THEN /\ crashCause' = "datagram"
             /\ handled' = Append(handled, [d |-> d, outcome |-> "raised",
                                            parsed |-> EmptyMap])
             /\ UNCHANGED <<latest, marker_events, sync_states, message_queue>>
        ELSE IF r.msg = <<>>
        THEN /\ handled' = Append(handled, [d |-> d, outcome |-> "dropped",
                                            parsed |-> EmptyMap])
             /\ UNCHANGED <<latest, marker_events, sync_states, message_queue,
                            crashCause>>
        ELSE /\ shpc # "t_print"
             /\ latest' = StoreLatest(latest, msg)
             /\ marker_events' =
                   IF msg.channel = "MARK" /\ DOMAIN msg.parsed # {}
                   THEN Append(marker_events,
                               [timestamp |-> msg.timestamp, parsed |-> msg.parsed])
                   ELSE marker_events
             /\ sync_states' =
                   IF msg.channel = "SYNC" /\ DOMAIN msg.parsed # {}
                   THEN Append(sync_states, SyncSample(msg))
                   ELSE sync_states
             /\ message_queue' = Enqueue(message_queue)
             /\ handled' = Append(handled, [d |-> d, outcome |-> "stored",
                                            parsed |-> msg.parsed])
             /\ UNCHANGED crashCause

\* where the thread goes after the loop body: the exception ends it, a dropped
\* datagram returns it to the loop test, a message goes to the callback
AfterBody(d) ==
    IF ParseMessage(d, clock).raised THEN "crashed"
    ELSE IF ParseMessage(d, clock).msg = <<>> THEN "check"
    ELSE "callback"

Handle ==
    /\ lpc = "handle"
    /\ Stores(cur[1])
    /\ lpc' = AfterBody(cur[1])
    /\ cur' = IF AfterBody(cur[1]) = "callback"
              THEN ParseMessage(cur[1], clock).msg
              ELSE IF AfterBody(cur[1]) = "check" THEN <<>> ELSE cur
    /\ UNCHANGED sideVars
    /\ UNCHANGED <<clock, storeVars, driverVars, running, shpc, sock, spc, recvsAfterStop, stopAt>>

\* self.callback(msg): ControllerAgent._on_telemetry, which does nothing
Callback ==
    /\ lpc = "callback"
    /\ lpc' = "check"
    /\ cur' = <<>>
    /\ UNCHANGED sideVars
    /\ UNCHANGED <<clock, storeVars, driverVars, running, shpc, sock, latest, marker_events,
                   sync_states, message_queue, spc, handled, crashCause,
                   recvsAfterStop, stopAt>>

\* stop(): self.running = False
StopSetFlag ==
    /\ spc = "idle" /\ lpc # "none"
    /\ running' = FALSE
    /\ spc' = "join"
    /\ stopAt' = lpc
    /\ UNCHANGED sideVars
    /\ UNCHANGED <<clock, storeVars, driverVars, shpc, sock, latest, marker_events,
                   sync_states, message_queue, lpc, cur, handled, crashCause,
                   recvsAfterStop>>

\* stop(): self.thread.join(timeout=2.0) returns, the thread has ended
StopJoined ==
    /\ spc = "join" /\ lpc \in {"exited", "crashed"}
    /\ spc' = "close"
    /\ UNCHANGED sideVars
    /\ UNCHANGED <<clock, storeVars, driverVars, running, shpc, sock, latest, marker_events,
                   sync_states, message_queue, lpc, cur, handled, crashCause,
                   recvsAfterStop, stopAt>>

\* stop(): the join gives up after 2 s with the thread still alive
StopJoinTimeout ==
    /\ spc = "join" /\ lpc \notin {"exited", "crashed"}
    /\ spc' = "close"
    /\ UNCHANGED sideVars
    /\ UNCHANGED <<clock, storeVars, driverVars, running, shpc, sock, latest, marker_events,
                   sync_states, message_queue, lpc, cur, handled, crashCause,
                   recvsAfterStop, stopAt>>

\* stop(): self.socket.close(); self.socket = None
StopClose ==
    /\ spc = "close"
    /\ sock' = "none"
    /\ spc' = "done"
    /\ UNCHANGED sideVars
    /\ UNCHANGED <<clock, storeVars, driverVars, running, shpc, latest, marker_events, sync_states,
                   message_queue, lpc, cur, handled, crashCause, recvsAfterStop, stopAt>>

RecvReturns ==
    \/ \E d \in Datagrams : RecvDatagram(d)
    \/ RecvTimeout
    \/ RecvError
    \/ RecvReleased

ListenerNext ==
    \/ ListenerStart
    \/ LoopCheck
    \/ \E d \in Datagrams : RecvDatagram(d)
    \/ RecvTimeout
    \/ RecvError
    \/ RecvReleased
    \/ Handle
    \/ Callback
    \/ StopSetFlag
    \/ StopJoined
    \/ StopJoinTimeout
    \/ StopClose
    \/ Tick

ListenerSpec == Init /\ [][ListenerNext]_vars

\* a long stretch of channel-quality datagrams, QueueCapacity - 1 of them,
\* each received, stored and queued by the thread, which is back in recvfrom
RecvBurst ==
    /\ lpc = "recv" /\ sock = "open" /\ shpc # "t_print"
    /\ message_queue <= 1
    /\ latest' = StoreLatest(latest, ParseMessage(ChanGood, clock).msg[1])
    /\ message_queue' = message_queue + (QueueCapacity - 1)
    /\ UNCHANGED sideVars
    /\ UNCHANGED <<clock, storeVars, driverVars, running, shpc, sock, marker_events,
                   sync_states, lpc, cur, spc, handled, crashCause, recvsAfterStop,
                   stopAt>>

\* QueueSpec: the receive thread of a listener that is not stopped, beside a
\* pipeline that sends for a long time; nothing takes messages from the queue
QueueNext ==
    \/ ListenerStart
    \/ LoopCheck
    \/ \E d \in Datagrams : RecvDatagram(d)
    \/ RecvTimeout
    \/ RecvBurst
    \/ Handle
    \/ Callback

QueueSpec == Init /\ [][QueueNext]_vars

\* the thread is scheduled, recvfrom returns within its timeout, the callback
\* returns, and stop() runs to its end
FairListenerSpec ==
    /\ ListenerSpec
    /\ WF_vars(LoopCheck)
    /\ WF_vars(RecvReturns)
    /\ WF_vars(Handle)
    /\ WF_vars(Callback)
    /\ WF_vars(StopJoined \/ StopJoinTimeout)
    /\ WF_vars(StopClose)

(***************************************************************************)
(* Spec: the agent.  optimize() runs the minimizer, which calls the        *)
(* objective; the objective collects telemetry the receive thread stores   *)
(* and records a new best in the record files.  An exception ends the      *)
(* process; the files outlive it.  In Spec every send to the pipeline      *)
(* succeeds; RestartSpec lets sends fail and max_iterations vary.          *)
(***************************************************************************)
\* a CORR whose tick interval is 2500 ms
CorrFar == Corr(Milli(2500000), Milli(900), 12, Milli(30))

\* what the pipeline sends while the agent optimizes
PipelineDatagrams ==
    { CorrGood, CorrFar, MarkGood,
      Sync("SEARCHING", Milli(100)), Sync("LOCKED", Milli(800)) }

\* a starting point at the lower bounds
MidVecLower(mode) == [i \in 1..Len(GetBounds(mode)) |-> GetBounds(mode)[i][1]]

\* initial_params of optimize(): the middle of the bounds
MidVec(mode) ==
    [i \in 1..Len(GetBounds(mode)) |->
        NHalfSum(GetBounds(mode)[i][1], GetBounds(mode)[i][2])]

\* the vectors the minimizer hands to the objective: x0, then vectors of its
\* choice; Nelder-Mead is given no bounds, and a vector it chooses may lie
\* beyond them (candidate NumCand + 1: each upper bound plus the lower one)
X(mode, k) ==
    IF k = 0 THEN x0
    ELSE IF k > NumCand
    THEN [i \in 1..Len(GetBounds(mode)) |->
             NAdd(GetBounds(mode)[i][2], GetBounds(mode)[i][1])]
    ELSE CandVec(mode, k)

\* set_parameters_from_array(values, mode): the values sent, by name
SetParametersFromArray(values, mode) ==
    LET dict == ZipDict(ArrayParamNames(mode), values)
    IN  [name \in DOMAIN dict |->
            IF name = "max_misses" THEN NInt(IntTrunc(dict[name])) ELSE dict[name]]

\* the names set_parameters tests, in the order of its if statements
SetterOrder ==
    <<"threshold", "adapt_down", "adapt_up", "min_duration",
      "confidence", "max_misses",
      "marker_threshold", "marker_adapt_rate", "marker_min_duration",
      "sync_weight_tick", "sync_weight_marker", "sync_weight_p_marker",
      "sync_weight_tick_hole", "sync_weight_combined",
      "sync_locked_threshold", "sync_min_retain", "sync_tentative_init",
      "sync_decay_normal", "sync_decay_recovering",
      "sync_tick_tolerance", "sync_marker_tolerance", "sync_p_marker_tolerance">>

\* success after the first n sends: success &= self.set_...(value)
RECURSIVE Success(_, _)
Success(sends, n) ==
    IF n = 0 THEN TRUE ELSE Success(sends, n - 1) /\ sends[n].ok

\* a set_parameters that gives up at the first send that fails
SetParametersGivesUp(params, failing) ==
    LET names == SelectSeq(SetterOrder, LAMBDA name : name \in DOMAIN params)
        upto == IF \E i \in 1..Len(names) : names[i] \in failing
                THEN CHOOSE i \in 1..Len(names) :
                        /\ names[i] \in failing
                        /\ \A j \in 1..(i - 1) : names[j] \notin failing
                ELSE Len(names)
        sends == [i \in 1..upto |->
                    [name |-> names[i], value |-> params[names[i]],
                     ok |-> names[i] \notin failing]]
    IN  [sends |-> sends, ok |-> Success(sends, Len(sends))]

\* set_parameters(params): the commands handed to _send, in order, and the
\* value returned; _send returns False for the names in failing (the socket
\* is None, or sendto raises socket.error).  set_corr_max_misses sends
\* int(value)
SetParameters(params, failing) ==
    LET names == SelectSeq(SetterOrder, LAMBDA name : name \in DOMAIN params)
        sends == [i \in 1..Len(names) |->
                    [name |-> names[i],
                     value |-> IF names[i] = "max_misses"
                               THEN NInt(IntTrunc(params[names[i]]))
                               ELSE params[names[i]],
                     ok |-> names[i] \notin failing]]
    IN  [sends |-> sends, ok |-> Success(sends, Len(sends))]

\* the record of a set_parameters_from_array(values, mode) call: who made it,
\* the values by name, the sends and the value returned
\* fault says which sends fail: none, all of them ("socket": the control
\* socket is None) or the last one ("last": its sendto raises socket.error)
Push(by, values, mode, fault) ==
    LET names == ArrayParamNames(mode)
        failing == IF fault = "socket" THEN {names[i] : i \in 1..Len(names)}
                   ELSE IF fault = "last" THEN {names[Len(names)]}
                   ELSE {}
        r == SetParameters(ZipDict(names, values), failing)
    IN  [by |-> by, params |-> SetParametersFromArray(values, mode),
         sends |-> r.sends, ok |-> r.ok]

SendFaults == {"none", "socket", "last"}

\* a file whose text ends inside a line
Torn == [exists |-> TRUE, secs |-> <<>>, torn |-> TRUE]

\* open(filepath, 'w') has emptied the file and config.write is cut short:
\* the lines written so far are flushed when the file is closed.  The cuts
\* modelled: before each section, and after the first option of the first
PartialFiles(cfg) ==
    {OnDisk(SubSeq(cfg, 1, n)) : n \in 0..(Len(cfg) - 1)}
    \cup {OnDisk(<< <<cfg[1][1], SubSeq(cfg[1][2], 1, 1)>> >>)}

\* the ways a _write_ini can end, as [file, exc]: the file it leaves and the
\* exception it raises ("": none).  The read of the existing file raises on
\* a text it cannot parse; open raises OSError (the file is left alone); the
\* write is interrupted (KeyboardInterrupt) or fails while the buffer is
\* flushed (OSError, the text cut inside a line)
WriteIniEnds(file, params, names, mode, score, now) ==
    IF ReadRaises(file) THEN {[file |-> file, exc |-> "ParsingError"]}
    ELSE LET new == WriteIni(file, params, names, mode, score, now)
         IN  {[file |-> new, exc |-> ""],
              [file |-> file, exc |-> "OSError"],
              [file |-> Torn, exc |-> "OSError"]}
             \cup {[file |-> f, exc |-> "KeyboardInterrupt"] : f \in PartialFiles(new.secs)}

\* a datagram arrives and the thread, waiting in recvfrom, runs the loop body
\* and the callback and is back in recvfrom before the agent takes a step
Deliver(d, most) ==
    /\ lpc = "recv" /\ sock = "open"
    /\ Len(handled) < most
    /\ Stores(d)
    /\ lpc' = IF AfterBody(d) = "crashed" THEN "crashed"
              ELSE IF running THEN "recv" ELSE "exited"
    /\ UNCHANGED sideVars
    /\ UNCHANGED <<clock, storeVars, driverVars, running, shpc, sock, cur, spc,
                   recvsAfterStop, stopAt>>

Elapsed == clock - start_time

\* an objective that does not wait
CollectDoneAtOnce == TRUE

\* a marker objective whose loop has no timeout
CollectDoneNoTimeout ==
    IF opt_mode = "marker" THEN Len(marker_events) >= marker_count_target
    ELSE IF opt_mode = "sync" THEN Elapsed >= sync_eval_time
    ELSE Elapsed >= settle_time

\* the wait of the objective is over: time.sleep(settle_time) has returned,
\* or the polling loop of the marker and sync objectives breaks
CollectDone ==
    IF opt_mode = "marker"
    THEN Len(marker_events) >= marker_count_target \/ Elapsed >= marker_eval_time
    ELSE IF opt_mode = "sync" THEN Elapsed >= sync_eval_time
    ELSE Elapsed >= settle_time

\* seconds that pass in one Sleep step: the settle time, or a stretch of
\* one-second polls during which no telemetry arrives
WaitStep(mode) ==
    IF mode = "marker" THEN 60 ELSE IF mode = "sync" THEN 30 ELSE settle_time

\* the score the objective of the mode computes from what the listener holds
Objective ==
    IF opt_mode = "marker" THEN MarkerScore(GetMarkerMetrics(marker_events), Elapsed)
    ELSE IF opt_mode = "sync" THEN SyncScore(GetSyncMetrics(sync_states))
    ELSE TickScore(GetCorrelationMetrics(latest))

\* metrics = self.telemetry.get_..._metrics(): what the objective of the mode
\* reads once its wait is over
Metrics ==
    IF opt_mode = "marker" THEN GetMarkerMetrics(marker_events)
    ELSE IF opt_mode = "sync" THEN GetSyncMetrics(sync_states)
    ELSE GetCorrelationMetrics(latest)

\* the telemetry samples of the mode that score is computed from
Samples ==
    IF opt_mode = "marker" THEN Len(marker_events)
    ELSE IF opt_mode = "sync" THEN Len(sync_states)
    ELSE IF DOMAIN GetCorrelationMetrics(latest) # {} THEN 1 ELSE 0

\* an objective that takes a CORR message received before the evaluation
\* began for no telemetry
NoTelemetryIfStale ==
    IF opt_mode = "marker" THEN GetMarkerMetrics(marker_events).count = 0
    ELSE IF opt_mode = "sync" THEN FALSE
    ELSE \/ DOMAIN GetCorrelationMetrics(latest) = {}
         \/ latest["CORR"].timestamp < start_time

\* the objective found no telemetry of its mode and returns its penalty at
\* once, before the best is tracked; the sync objective has no such return
NoTelemetry ==
    IF opt_mode = "marker" THEN GetMarkerMetrics(marker_events).count = 0
    ELSE IF opt_mode = "sync" THEN FALSE
    ELSE DOMAIN GetCorrelationMetrics(latest) = {}

\* an objective that tracks the best before it looks for telemetry
ImprovesPenaltyToo == NLt(Objective, best_score)

\* the objective goes on past its no-telemetry return and finds the score
\* below the best of the run: if score < self.best_score
Improves == ~NoTelemetry /\ NLt(Objective, best_score)

\* an optimize() without its finally clause
RaisedKeepsRunning(exc) ==
    /\ opc' = "raised"
    /\ optimization_running' = optimization_running
    /\ endedBy' = exc

\* an exception leaves optimize() through its finally clause
Raised(exc) ==
    /\ opc' = "raised"
    /\ optimization_running' = FALSE
    /\ endedBy' = exc

\* optimize(initial_params=given, mode=mode), up to the call of minimize;
\* given is <<>> for None or <<the list passed>>
OptimizeFrom(given, mode, n) ==
    /\ opc \in {"idle", "returned"} /\ lpc # "none" /\ shpc = "prompt"
    /\ runs < MaxRuns /\ evals < MaxEvals
    /\ opt_mode' = mode
    /\ max_iterations' = n
    /\ initial_params' = given
    /\ x0' = (IF given = <<>> THEN MidVec(mode) ELSE given[1])
    /\ optimization_running' = TRUE
    /\ eval_count' = 0
    /\ best_score' = Inf
    /\ best_params' = (IF given = <<>> THEN MidVec(mode) ELSE given[1])
    /\ opc' = "minimizing"
    /\ endedBy' = ""
    /\ runs' = runs + 1
    /\ scored' = <<>>
    /\ samples' = 0
    /\ metrics' = <<>>
    /\ results' = <<>>
    /\ UNCHANGED sideVars
    /\ UNCHANGED <<clock, storeVars, listenerVars, cand, start_time, remote, evals,
                   lastWrite>>

\* optimize(mode=mode): initial_params left at its default, None
OptimizeBegin(mode, n) == OptimizeFrom(<<>>, mode, n)

\* an objective that does not clear the history of its mode
ClearKeeps(buffer, mode) == buffer

\* clear_marker_events() in the marker objective, clear_sync_states() in the
\* sync objective: the buffer of mode after the objective of opt_mode has
\* sent the parameters
Clear(buffer, mode) == IF opt_mode = mode THEN <<>> ELSE buffer

\* the minimizer calls the objective: the count, the parameters sent, the
\* history of the mode cleared, the wait begun
EvalBegin(k, fault) ==
    /\ opc = "minimizing" /\ evals < MaxEvals
    /\ (k = 0) = (eval_count = 0)
    /\ eval_count' = eval_count + 1
    /\ evals' = evals + 1
    /\ cand' = X(opt_mode, k)
    /\ remote' = <<Push("objective", X(opt_mode, k), opt_mode, fault)>>
    /\ marker_events' = Clear(marker_events, "marker")
    /\ sync_states' = Clear(sync_states, "sync")
    /\ start_time' = clock
    /\ opc' = "collect"
    /\ UNCHANGED sideVars
    /\ UNCHANGED <<clock, storeVars, running, shpc, sock, latest, message_queue, lpc, cur,
                   spc, handled, crashCause, recvsAfterStop, stopAt, opt_mode, max_iterations, initial_params, x0,
                   optimization_running, best_score, best_params, scored, samples,
                   metrics, results,
                   endedBy, runs, lastWrite>>

\* the objective sleeps
Sleep ==
    /\ opc = "collect" /\ ~CollectDone
    /\ clock' = clock + WaitStep(opt_mode)
    /\ UNCHANGED sideVars
    /\ UNCHANGED <<storeVars, listenerVars, driverVars>>

\* the objective reads the metrics, computes the score and tracks the best
Measure ==
    /\ opc = "collect" /\ CollectDone
    /\ scored' = <<Objective>>
    /\ samples' = Samples
    /\ metrics' = <<Metrics>>
    /\ results' = Append(results, [x |-> cand, score |-> Objective,
                                   absent |-> NoTelemetry])
    /\ IF Improves
       THEN /\ best_score' = Objective
            /\ best_params' = cand
            /\ opc' = "save_last"
       ELSE /\ opc' = "minimizing"
            /\ UNCHANGED <<best_score, best_params>>
    /\ UNCHANGED sideVars
    /\ UNCHANGED <<clock, storeVars, listenerVars, opt_mode, max_iterations, initial_params, x0, optimization_running,
                   eval_count, cand, start_time, remote, endedBy, evals, runs,
                   lastWrite>>

\* save_to_ini: _write_ini(self.last_run_path, ...)
SaveLastRun ==
    /\ opc = "save_last"
    /\ \E o \in WriteIniEnds(last_run, best_params, GetParamNames(opt_mode),
                              opt_mode, best_score, clock) :
          /\ last_run' = o.file
          /\ IF o.exc = ""
             THEN opc' = "save_best" /\ UNCHANGED <<optimization_running, endedBy>>
             ELSE Raised(o.exc)
    /\ lastWrite' = <<[path |-> "last_run", before |-> last_run,
                       meant |-> WriteIni(last_run, best_params, GetParamNames(opt_mode),
                                          opt_mode, best_score, clock)]>>
    /\ UNCHANGED sideVars
    /\ UNCHANGED <<clock, ini, lastCall, calls, listenerVars, opt_mode, max_iterations, initial_params, x0, eval_count,
                   best_score, best_params, cand, start_time, scored, samples,
                   metrics, results,
                   remote, evals, runs>>

\* save_to_ini: _get_existing_score(self.ini_path, mode), then the overall
\* best rewritten when the score is better; the objective returns
SaveBest ==
    /\ opc = "save_best"
    /\ IF ReadRaises(ini)
       THEN Raised("ParsingError") /\ UNCHANGED <<ini, lastWrite>>
       ELSE IF ShouldUpdateBest(GetExistingScore(ini, opt_mode), best_score)
       THEN /\ \E o \in WriteIniEnds(ini, best_params, GetParamNames(opt_mode),
                                      opt_mode, best_score, clock) :
                  /\ ini' = o.file
                  /\ IF o.exc = ""
                     THEN /\ opc' = "minimizing"
                          /\ UNCHANGED <<optimization_running, endedBy>>
                     ELSE Raised(o.exc)
            /\ lastWrite' =
                  <<[path |-> "ini", before |-> ini,
                     meant |-> WriteIni(ini, best_params, GetParamNames(opt_mode),
                                        opt_mode, best_score, clock)]>>
       ELSE /\ opc' = "minimizing"
            /\ UNCHANGED <<ini, lastWrite, optimization_running, endedBy>>
    /\ UNCHANGED sideVars
    /\ UNCHANGED <<clock, last_run, lastCall, calls, listenerVars, opt_mode, max_iterations, initial_params, x0,
                   eval_count, best_score, best_params, cand, start_time, scored,
                   samples, metrics, results, remote, evals, runs>>

\* Ctrl+C while minimize runs: KeyboardInterrupt in the minimizer or in the
\* objective, outside a file write
Interrupt ==
    /\ opc \in {"minimizing", "collect", "save_last", "save_best"}
    /\ Raised("KeyboardInterrupt")
    /\ UNCHANGED sideVars
    /\ UNCHANGED <<clock, storeVars, listenerVars, opt_mode, max_iterations, initial_params, x0, eval_count, best_score,
                   best_params, cand, start_time, scored, samples, metrics, results,
                   remote, evals,
                   runs, lastWrite>>

\* minimize returns: the finally clause, the best parameters applied, the
\* result returned
OptimizeReturn(fault) ==
    /\ opc = "minimizing" /\ eval_count >= 1
    /\ optimization_running' = FALSE
    /\ remote' = <<Push("optimize", best_params, opt_mode, fault)>>
    /\ opc' = "returned"
    /\ endedBy' = "return"
    /\ UNCHANGED sideVars
    /\ UNCHANGED <<clock, storeVars, listenerVars, opt_mode, max_iterations, initial_params, x0, eval_count, best_score,
                   best_params, cand, start_time, scored, samples, metrics, results,
                   evals, runs,
                   lastWrite>>

\* main(), command 't': agent.telemetry.lock is taken and the latest message
\* of each channel is printed with the lock held
ShellShowLatest ==
    /\ shpc = "prompt" /\ opc \in {"idle", "returned"} /\ lpc # "none"
    /\ shpc' = "t_print"
    /\ UNCHANGED sideVars
    /\ UNCHANGED <<clock, storeVars, driverVars, running, sock, latest, marker_events,
                   sync_states, message_queue, lpc, cur, spc, handled, crashCause,
                   recvsAfterStop, stopAt>>

\* the printing is done, the lock is released and the shell prompts again
ShellShowDone ==
    /\ shpc = "t_print"
    /\ shpc' = "prompt"
    /\ UNCHANGED sideVars
    /\ UNCHANGED <<clock, storeVars, driverVars, running, sock, latest, marker_events,
                   sync_states, message_queue, lpc, cur, spc, handled, crashCause,
                   recvsAfterStop, stopAt>>

\* the process has ended with the exception and the program is run again:
\* the objects are new, the files and the pipeline are as they were left
Restart ==
    /\ opc = "raised"
    /\ runs < MaxRuns /\ evals < MaxEvals
    /\ running' = FALSE
    /\ shpc' = "prompt"
    /\ sock' = "none"
    /\ latest' = EmptyMap
    /\ marker_events' = <<>>
    /\ sync_states' = <<>>
    /\ message_queue' = 0
    /\ lpc' = "none"
    /\ cur' = <<>>
    /\ crashCause' = ""
    /\ opc' = "idle"
    /\ opt_mode' = "tick"
    /\ max_iterations' = 100
    /\ initial_params' = <<>>
    /\ x0' = <<>>
    /\ optimization_running' = FALSE
    /\ eval_count' = 0
    /\ best_score' = Inf
    /\ best_params' = <<>>
    /\ cand' = <<>>
    /\ start_time' = 0
    /\ scored' = <<>>
    /\ samples' = 0
    /\ metrics' = <<>>
    /\ results' = <<>>
    /\ endedBy' = ""
    /\ UNCHANGED sideVars
    /\ UNCHANGED <<clock, storeVars, spc, handled, recvsAfterStop, stopAt, remote,
                   evals, runs, lastWrite>>

Next ==
    \/ ListenerStart
    \/ LoopCheck
    \/ \E d \in PipelineDatagrams : Deliver(d, MaxRecv)
    \/ \E mode \in Modes : OptimizeBegin(mode, MaxIter)
    \/ \E k \in 0..NumCand : EvalBegin(k, "none")
    \/ Sleep
    \/ Measure
    \/ SaveLastRun
    \/ SaveBest
    \/ Interrupt
    \/ OptimizeReturn("none")

Spec == Init /\ [][Next]_vars

\* RestartSpec: the agent beside a silent pipeline, run again after an
\* exception has ended it.  The minimizer is scipy's: it evaluates x0, then
\* vectors of its choice, and is given max_iterations as maxiter, which
\* bounds its iterations and not its evaluations
RestartNext ==
    \/ ListenerStart
    \/ LoopCheck
    \/ \E mode \in Modes, n \in 1..MaxIter : OptimizeBegin(mode, n)
    \/ \E k \in 0..NumCand, fault \in SendFaults : EvalBegin(k, fault)
    \/ Sleep
    \/ Measure
    \/ SaveLastRun
    \/ SaveBest
    \/ Interrupt
    \/ \E fault \in SendFaults : OptimizeReturn(fault)
    \/ Restart

RestartSpec == Init /\ [][RestartNext]_vars

\* ShellSpec: main() beside a pipeline that sends markers: the shell shows
\* the latest telemetry or runs optimize(), one command at a time
ShellNext ==
    \/ ListenerStart
    \/ LoopCheck
    \/ Deliver(MarkGood, marker_count_target)
    \/ ShellShowLatest
    \/ ShellShowDone
    \/ \E mode \in Modes : OptimizeBegin(mode, MaxIter)
    \/ \E k \in 0..NumCand : EvalBegin(k, "none")
    \/ Sleep
    \/ Measure
    \/ SaveLastRun
    \/ SaveBest
    \/ OptimizeReturn("none")

ShellSpec == Init /\ [][ShellNext]_vars

\* time advances while an objective waits (time.sleep returns), and the
\* thread that runs the objective is scheduled: once the wait is over it
\* goes on to read the metrics (the step Measure, named by its effect on opc)
FairShellSpec ==
    /\ ShellSpec
    /\ WF_vars(Sleep)
    /\ WF_opc(opc = "collect" /\ CollectDone /\ opc' \in {"save_last", "minimizing"})

\* a marker whose pulse lasted 500 ms
MarkShort == Mark(Milli(500000))

\* what the pipeline sends in MetricsSpec: the telemetry of the detector
\* that is optimized
MetricsDatagrams(mode) ==
    IF mode = "sync" THEN {Sync("SEARCHING", Milli(100)), Sync("LOCKED", Milli(800))}
    ELSE {MarkGood, MarkShort}

\* datagrams the listener receives in a behaviour of MetricsSpec
MaxSamples == 3

\* optimize() calls in a behaviour of MetricsSpec
MetricsRuns == 1

\* the polling loop of the marker or sync objective goes round for dt
\* seconds, time.sleep(1.0) each time, or until its time is up, and no
\* telemetry arrives meanwhile
Poll(mode, dt) ==
    LET window == IF mode = "marker" THEN marker_eval_time ELSE sync_eval_time
    IN  /\ opc = "collect" /\ ~CollectDone
        /\ opt_mode = mode
        /\ clock' = IF Elapsed + dt > window THEN start_time + window ELSE clock + dt
        /\ UNCHANGED sideVars
        /\ UNCHANGED <<storeVars, listenerVars, driverVars>>

\* MetricsSpec: marker and sync runs beside a pipeline whose markers and sync
\* states arrive at varied times of the collection window
MetricsNext ==
    \/ ListenerStart
    \/ LoopCheck
    \/ \E mode \in {"marker", "sync"} :
          \E d \in MetricsDatagrams(mode) : opt_mode = mode /\ Deliver(d, MaxSamples)
    \/ \E mode \in {"marker", "sync"} : runs < MetricsRuns /\ OptimizeBegin(mode, MaxIter)
    \/ \E k \in 0..NumCand : EvalBegin(k, "none")
    \/ \E dt \in {10, 30} : Poll("sync", dt)
    \/ \E dt \in {30, 60} : Poll("marker", dt)
    \/ Measure
    \/ SaveLastRun
    \/ SaveBest
    \/ OptimizeReturn("none")

MetricsSpec == Init /\ [][MetricsNext]_vars

\* a CORR for a tick 2000 ms after the one before it, at the start of a chain,
\* with a correlation ratio of 1: its score is 1000 + 0 - 0 + 0
CorrThousand == Corr(Milli(2000000), Milli(1000), 0, Zero)

\* what the pipeline sends in CorrSpec: CORR messages, complete and cut short
CorrDatagrams == {CorrGood, CorrThousand, CutTo(CorrGood, 4)}

\* CorrSpec: tick, corr and all runs beside a pipeline that sends CORR
\* messages at any time, before and during the evaluations
CorrNext ==
    \/ ListenerStart
    \/ LoopCheck
    \/ \E d \in CorrDatagrams : Deliver(d, MaxRecv)
    \/ \E mode \in {"tick", "corr", "all"} : OptimizeBegin(mode, MaxIter)
    \/ \E k \in 0..NumCand : EvalBegin(k, "none")
    \/ Sleep
    \/ Measure
    \/ SaveLastRun
    \/ SaveBest
    \/ OptimizeReturn("none")

CorrSpec == Init /\ [][CorrNext]_vars

\* StartSpec: optimize() called with and without initial_params, in every
\* mode, with the default method: Nelder-Mead, which minimize runs without
\* bounds, so that the vectors it evaluates after x0 are inside the bounds
\* or beyond them
StartNext ==
    \/ ListenerStart
    \/ LoopCheck
    \/ Deliver(CorrGood, MaxRecv)
    \/ \E mode \in Modes : \E given \in {<<>>, <<CandVec(mode, 2)>>} :
          runs < MetricsRuns /\ OptimizeFrom(given, mode, MaxIter)
    \/ \E k \in 0..(NumCand + 1) : EvalBegin(k, "none")
    \/ Sleep
    \/ Measure
    \/ SaveLastRun
    \/ SaveBest
    \/ OptimizeReturn("none")

StartSpec == Init /\ [][StartNext]_vars

(***************************************************************************)
(* LockSpec: the three locks of TelemetryListener.  The receive thread and *)
(* the main thread (the shell and the objectives it runs) go through the   *)
(* `with` blocks of the listener's methods one acquire or release at a     *)
(* time.  threading.Lock is not reentrant: an acquire waits while any      *)
(* thread, the caller included, holds the lock.                            *)
(***************************************************************************)
\* a receive loop that appends the marker inside the block of self.lock
LockPlanNested(op) ==
    IF op = "listen MARK"
    THEN << <<"acquire", "lock">>, <<"acquire", "marker_lock">>,
            <<"release", "marker_lock">>, <<"release", "lock">> >>
    ELSE << <<"acquire", "lock">>, <<"release", "lock">> >>

\* the acquires and releases of an operation, in program order.  One pass of
\* _listen_loop over a message of the channel named: self.latest, then the
\* history of the channel.  The objectives as controller.py calls the
\* listener: get_correlation_metrics (get_latest); clear_marker_events, the
\* get_marker_count of a poll, get_marker_metrics (get_marker_events);
\* clear_sync_states, the get_sync_metrics (get_sync_states) of a poll and
\* the final one.  The shell's 's' (get_correlation_metrics) and 't', which
\* prints inside `with agent.telemetry.lock`
LockPlan(op) ==
    LET With(l) == << <<"acquire", l>>, <<"release", l>> >>
    IN  CASE op = "listen CORR" -> With("lock")
          [] op = "listen MARK" -> With("lock") \o With("marker_lock")
          [] op = "listen SYNC" -> With("lock") \o With("sync_lock")
          [] op \in {"objective_function", "s", "t"} -> With("lock")
          [] op = "marker_objective_function" ->
                With("marker_lock") \o With("marker_lock") \o With("marker_lock")
          [] op = "sync_objective_function" ->
                With("sync_lock") \o With("sync_lock") \o With("sync_lock")

LockNext ==
    \* the receive thread has parsed a message
    \/ \E op \in {"listen CORR", "listen MARK", "listen SYNC"} :
          /\ plan["listener"] = <<>>
          /\ plan' = [plan EXCEPT !["listener"] = LockPlan(op)]
          /\ UNCHANGED <<clock, storeVars, listenerVars, driverVars, held, relay, sdr>>
    \* the main thread runs an objective or a command of the shell
    \/ \E op \in {"objective_function", "marker_objective_function",
                  "sync_objective_function", "s", "t"} :
          /\ plan["main"] = <<>>
          /\ plan' = [plan EXCEPT !["main"] = LockPlan(op)]
          /\ UNCHANGED <<clock, storeVars, listenerVars, driverVars, held, relay, sdr>>
    \* a thread enters a `with` block: the lock is free
    \/ \E t \in DOMAIN plan :
          /\ plan[t] # <<>> /\ Head(plan[t])[1] = "acquire"
          /\ \A u \in DOMAIN held : Head(plan[t])[2] \notin held[u]
          /\ held' = [held EXCEPT ![t] = @ \cup {Head(plan[t])[2]}]
          /\ plan' = [plan EXCEPT ![t] = Tail(@)]
          /\ UNCHANGED <<clock, storeVars, listenerVars, driverVars, relay, sdr>>
    \* a thread leaves a `with` block
    \/ \E t \in DOMAIN plan :
          /\ plan[t] # <<>> /\ Head(plan[t])[1] = "release"
          /\ held' = [held EXCEPT ![t] = @ \ {Head(plan[t])[2]}]
          /\ plan' = [plan EXCEPT ![t] = Tail(@)]
          /\ UNCHANGED <<clock, storeVars, listenerVars, driverVars, relay, sdr>>

LockSpec == Init /\ [][LockNext]_vars

(***************************************************************************)
(* RelaySpec: SDRRelayController.send_command and the server behind the    *)
(* relay.  Commands are numbered in the order they are sent; the server    *)
(* answers them in that order, each in its own time; the client reads the  *)
(* stream one line per command.  A reply is named by the number of the     *)
(* command it answers; 0 stands for the None send_command returns.         *)
(***************************************************************************)
\* commands sent in a behaviour of RelaySpec
MaxCmds == 4

RelayNext ==
    \* send_command(command): sock.sendall(msg), the read of the reply begun
    \/ /\ relay.connected /\ relay.waiting = 0 /\ relay.sent < MaxCmds
       /\ relay' = [relay EXCEPT !.sent = @ + 1, !.waiting = relay.sent + 1,
                                 !.server = Append(@, relay.sent + 1)]
       /\ UNCHANGED <<clock, storeVars, listenerVars, driverVars, held, plan, sdr>>
    \* the server answers the oldest command it has not answered
    \/ /\ relay.server # <<>>
       /\ relay' = [relay EXCEPT !.server = Tail(@),
                                 !.wire = Append(@, Head(relay.server))]
       /\ UNCHANGED <<clock, storeVars, listenerVars, driverVars, held, plan, sdr>>
    \* send_command: recv(1) until the newline, the line returned
    \/ /\ relay.waiting # 0 /\ relay.wire # <<>>
       /\ relay' = [relay EXCEPT !.waiting = 0, !.wire = Tail(@),
                                 !.returned = Append(@, [cmd |-> relay.waiting,
                                                         reply |-> Head(relay.wire)])]
       /\ UNCHANGED <<clock, storeVars, listenerVars, driverVars, held, plan, sdr>>
    \* send_command: socket.timeout after SOCKET_TIMEOUT seconds without a
    \* byte: None is returned and the connection is kept
    \/ /\ relay.waiting # 0 /\ relay.wire = <<>>
       /\ relay' = [relay EXCEPT !.waiting = 0,
                                 !.returned = Append(@, [cmd |-> relay.waiting,
                                                         reply |-> 0])]
       /\ UNCHANGED <<clock, storeVars, listenerVars, driverVars, held, plan, sdr>>
    \* send_command: recv returns no byte, the relay has closed: ConnectionError,
    \* connected = False, None is returned
    \/ /\ relay.waiting # 0 /\ relay.wire = <<>>
       /\ relay' = [relay EXCEPT !.waiting = 0, !.connected = FALSE,
                                 !.returned = Append(@, [cmd |-> relay.waiting,
                                                         reply |-> 0])]
       /\ UNCHANGED <<clock, storeVars, listenerVars, driverVars, held, plan, sdr>>

RelaySpec == Init /\ [][RelayNext]_vars

(***************************************************************************)
(* SdrSpec: SDRController._send_command.  A reply is the text recv         *)
(* returns, decoded and stripped, as its sequence of characters; <<>> is    *)
(* the empty read of a connection the peer has closed.                      *)
(***************************************************************************)
\* _send_command calls in a behaviour of SdrSpec
MaxSdrCalls == 2

\* what the exchange of one command can bring, as [raised, text]: a reply,
\* or a socket.error raised by sendall or recv (the 5 s timeout included)
SdrOutcomes ==
    { [raised |-> FALSE, text |-> t] :
          t \in { <<"O", "K">>, <<"O", "K", " ", "7">>, <<"P", "O", "N", "G">>,
                  <<"B", "Y", "E">>, <<"E", "R", "R", " ", "1">>, <<"H", "I">>, <<>> } }
    \cup { [raised |-> TRUE, text |-> <<>>] }

\* _send_command(cmd) on self.socket, the exchange bringing outcome: the
\* pair returned, as [ok, text]
SendCommand(socket, outcome) ==
    LET StartsWith(resp, pre) ==
            Len(resp) >= Len(pre) /\ SubSeq(resp, 1, Len(pre)) = pre
        response == outcome.text
    IN  IF socket = "none" THEN [ok |-> FALSE, text |-> <<"Not connected">>]
        ELSE IF outcome.raised THEN [ok |-> FALSE, text |-> <<"str(e)">>]
        ELSE IF StartsWith(response, <<"O", "K">>)
        THEN [ok |-> TRUE,
              text |-> IF Len(response) > 2 THEN SubSeq(response, 4, Len(response))
                       ELSE <<>>]
        ELSE IF response = <<"P", "O", "N", "G">> THEN [ok |-> TRUE, text |-> response]
        ELSE IF response = <<"B", "Y", "E">> THEN [ok |-> TRUE, text |-> response]
        ELSE IF StartsWith(response, <<"E", "R", "R">>) THEN [ok |-> FALSE, text |-> response]
        ELSE [ok |-> TRUE, text |-> response]

SdrNext ==
    \* connect()
    \/ /\ sdr.socket = "none"
       /\ sdr' = [sdr EXCEPT !.socket = "open"]
       /\ UNCHANGED <<clock, storeVars, listenerVars, driverVars, held, plan, relay>>
    \* disconnect(), the result of its QUIT dropped
    \/ /\ sdr.socket = "open"
       /\ sdr' = [sdr EXCEPT !.socket = "none"]
       /\ UNCHANGED <<clock, storeVars, listenerVars, driverVars, held, plan, relay>>
    \* _send_command(cmd)
    \/ \E outcome \in SdrOutcomes :
          /\ Len(sdr.returned) < MaxSdrCalls
          /\ sdr' = [sdr EXCEPT !.returned =
                        Append(@, [socket |-> sdr.socket, outcome |-> outcome,
                                   result |-> SendCommand(sdr.socket, outcome)])]
          /\ UNCHANGED <<clock, storeVars, listenerVars, driverVars, held, plan, relay>>

SdrSpec == Init /\ [][SdrNext]_vars

(***************************************************************************)
(* Properties of the result store (StoreSpec)                              *)
(***************************************************************************)
\* the text stored under <mode>_best_score: <<text>>, or <<>> when there is none
BestScoreText(file, mode) ==
    IF file.exists /\ HasOpt(file.secs, "optimization_meta", mode \o "_best_score")
    THEN <<GetOpt(file.secs, "optimization_meta", mode \o "_best_score")>>
    ELSE <<>>

BestScoreOf(file, mode) == ParseFloat(BestScoreText(file, mode)[1])[1]

C3_RepeatedSaveIdentical ==
    [][(calls' = calls + 1 /\ lastCall' = lastCall) => ini' = ini]_vars


(***************************************************************************)
(* Properties of the listener                                              *)
(***************************************************************************)
\* C8: no received datagram ends the receive loop: whatever its content, the
\* datagram is stored or dropped, and the thread goes on to receive again
C8_DatagramNeverEndsLoop ==
    /\ crashCause # "datagram"
    /\ \A i \in 1..Len(handled) : handled[i].outcome \in {"stored", "dropped"}
    /\ lpc = "crashed" => crashCause \in {"socket", "released"}

\* a TICK whose sample offset is not a number raised inside the parser and was
\* dropped, and the thread received and stored the next datagram
C8_Witness ==
    /\ Len(handled) = 2
    /\ handled[1].d = WithToken(TickGood, 3, TTxt("bad"))
    /\ handled[1].outcome = "dropped"
    /\ handled[2].outcome = "stored"
    /\ lpc = "recv"

\* datagrams of the known channels with too few fields
ShortDatagrams ==
    { CutTo(CorrGood, 4), CutTo(CorrGood, 1), CutTo(MarkGood, 8),
      CutTo(Sync("LOCKED", Milli(800)), 2), CutTo(ChanGood, 2) }

\* datagrams of the known channels with text where a number is expected
CorruptDatagrams ==
    { WithToken(CorrGood, 8, TTxt("bad")),
      WithToken(CorrGood, 4, TDec("1.5", Milli(1500))),
      WithToken(MarkGood, 6, TTxt("bad")),
      WithToken(Sync("LOCKED", Milli(800)), 3, TTxt("bad")),
      WithToken(ChanGood, 3, TTxt("bad")),
      WithToken(TickGood, 3, TTxt("bad")) }

\* C9 as claimed: a datagram of a known channel that is too short or has an
\* unparseable numeric field is stored as the latest message of its channel
\* with an empty parsed map
C9_MalformedStoredWithEmptyMap ==
    \A i \in 1..Len(handled) :
        handled[i].d \in ShortDatagrams \cup CorruptDatagrams =>
            /\ handled[i].outcome = "stored"
            /\ handled[i].parsed = EmptyMap

\* C10: once stop() has cleared the flag the thread begins no further
\* recvfrom, so the one in progress, which returns within its timeout, is the
\* last; the loop ends and stop() releases the socket
C10_StopEndsLoop ==
    /\ [](recvsAfterStop = 0)
    /\ (spc # "idle") ~> (lpc \in {"exited", "crashed"} /\ sock = "none")

\* stop() found the thread inside the callback; the loop exited at its next
\* check and the socket was released
C10_Witness ==
    /\ stopAt = "callback"
    /\ lpc = "exited"
    /\ spc = "done"
    /\ sock = "none"


(***************************************************************************)
(* Properties of the agent                                                 *)
(***************************************************************************)
\* the record holds the mode, the score and the parameters of the mode, each
\* as _write_ini renders it
RecordHolds(file, mode, params, best) ==
    LET dict == ZipDict(GetParamNames(mode), params)
    IN  /\ file.exists /\ ~file.torn
        /\ HasOpt(file.secs, "optimization_meta", "last_mode")
        /\ GetOpt(file.secs, "optimization_meta", "last_mode") = <<"s", mode>>
        /\ HasOpt(file.secs, "optimization_meta", "last_score")
        /\ GetOpt(file.secs, "optimization_meta", "last_score") = Fmt6(best)
        /\ \A i \in 1..Len(IniTable) :
              (IniTable[i][1] = mode \/ mode = "all") /\ IniTable[i][3] \in DOMAIN dict =>
                  /\ HasOpt(file.secs, IniTable[i][2], IniTable[i][4])
                  /\ GetOpt(file.secs, IniTable[i][2], IniTable[i][4])
                         = Render(IniTable[i][5], dict[IniTable[i][3]])

\* C1: while optimize() runs and no evaluation is in progress, a finite best
\* score is in last_run.ini as last_score, with the mode of the run as
\* last_mode and the best parameters of the run in the sections of the mode
C1_LastRunHoldsBest ==
    (opc = "minimizing" /\ ~best_score.inf) =>
        RecordHolds(last_run, opt_mode, best_params, best_score)

\* the second evaluation of a run scored worse than the first: the best is
\* still the first one, saved before the second began
C1_Witness ==
    /\ opc = "minimizing"
    /\ eval_count = 2
    /\ ~best_score.inf
    /\ NLt(best_score, scored[1])
    /\ best_params # cand

\* C4 as claimed: when optimize() has ended, by return or by exception, with a
\* best found, the parameters the pipeline was last sent are the best ones
C4_BestPushedWhenOptimizeEnds ==
    (opc \in {"returned", "raised"} /\ ~best_score.inf) =>
        /\ remote # <<>>
        /\ remote[1].params = SetParametersFromArray(best_params, opt_mode)

\* the score the objective of the mode returns when it saw no telemetry
AbsenceScore(mode) ==
    IF mode = "marker" THEN MarkerScore(GetMarkerMetrics(<<>>), 0)
    ELSE IF mode = "sync" THEN SyncScore(GetSyncMetrics(<<>>))
    ELSE TickScore(EmptyMap)

\* C5 as claimed: an evaluation that saw no telemetry of its mode scores the
\* fixed penalty of the mode, and one that saw a sample scores strictly less
C5_AbsencePenaltyIsMaximal ==
    scored # <<>> =>
        IF samples = 0 THEN scored[1] = AbsenceScore(opt_mode)
        ELSE NLt(scored[1], AbsenceScore(opt_mode))

\* C6 as claimed: no failure to read or write a record file ends optimize()
C6_PersistenceFailureNeverAborts ==
    endedBy \notin {"OSError", "ParsingError"}

\* C7 as claimed: after a _write_ini, however it ended, the file is what it
\* was before the call or what the call meant to write
C7_RecordNeverPartial ==
    lastWrite # <<>> =>
        LET f == IF lastWrite[1].path = "ini" THEN ini ELSE last_run
        IN  f = lastWrite[1].before \/ f = lastWrite[1].meant

\* C11 as claimed: a receive error while the listener runs does not end the
\* receive thread
C11_SocketErrorSurvived ==
    ~(lpc = "crashed" /\ crashCause = "socket")

\* C12 as claimed: the objective tracks a new best and persists it only in an
\* evaluation whose set_parameters_from_array returned true
C12_FailedSendIsNonImprovement ==
    (opc \in {"save_last", "save_best"} /\ remote # <<>>) => remote[1].ok

\* C13: while an evaluation waits, every parameter of the candidate has been
\* handed to _send; and the score is computed only once the settle time has
\* passed (tick, corr, all), the marker target or the marker timeout is
\* reached (marker), or the sync window has passed (sync)
C13_SendsThenWaitThenRead ==
    /\ [](opc = "collect" =>
            /\ remote # <<>> /\ remote[1].by = "objective"
            /\ remote[1].params = SetParametersFromArray(cand, opt_mode)
            /\ Len(remote[1].sends) = Len(cand))
    /\ [][(opc = "collect" /\ opc' \in {"minimizing", "save_last"}) =>
            IF opt_mode = "marker"
            THEN Len(marker_events) >= 3 \/ clock - start_time >= 180
            ELSE IF opt_mode = "sync" THEN clock - start_time >= 60
            ELSE clock - start_time >= 2]_vars

\* a marker evaluation that ended on its third marker, before the timeout
C13_Witness ==
    /\ opt_mode = "marker" /\ opc \in {"minimizing", "save_last"}
    /\ scored # <<>> /\ Len(marker_events) = 3
    /\ clock - start_time < 180

\* C14 as claimed (its second half): no blocking operation is performed while
\* a lock of the listener is held; printing to the console is one
C14_NoBlockingUnderLock ==
    shpc # "t_print"

\* C15: the queue never holds more than its capacity; a message received
\* while the queue is full is not enqueued, is still stored as the latest of
\* its channel and appended to the marker or sync buffer, and the thread
\* goes on to the callback
C15_QueueBoundedNeverBlocks ==
    /\ [](message_queue <= 1000)
    /\ [][(message_queue = 1000 /\ Len(handled') = Len(handled) + 1
            /\ handled'[Len(handled')].outcome = "stored") =>
            LET d == handled'[Len(handled')].d
                msg == ParseMessage(d, clock).msg[1]
            IN  /\ message_queue' = 1000
                /\ latest'[msg.channel] = msg
                /\ msg.channel = "MARK" /\ DOMAIN msg.parsed # {} =>
                      /\ Len(marker_events') = Len(marker_events) + 1
                      /\ marker_events'[Len(marker_events')].parsed = msg.parsed
                /\ msg.channel = "SYNC" /\ DOMAIN msg.parsed # {} =>
                      Len(sync_states') = Len(sync_states) + 1
                /\ lpc' \in {"callback", "recv", "exited"}]_vars

\* a marker was received with the queue full
C15_Witness ==
    /\ message_queue = 1000 /\ Len(handled) = 2
    /\ handled[2].d = MarkGood /\ handled[2].outcome = "stored"
    /\ Len(marker_events) = 1 /\ "MARK" \in DOMAIN latest
    /\ "CHAN" \in DOMAIN latest

\* C16: set_parameters_from_array(values, mode) hands _send one command per
\* parameter of the mode, the i-th carrying the i-th name and values[i]
\* (as an integer for max_misses), whether earlier sends failed or not, and
\* returns true exactly when every send returned true
C16_OneSendPerParameter ==
    (opc \in {"collect", "returned"} /\ remote # <<>>) =>
        LET r == remote[1]
            values == IF opc = "collect" THEN cand ELSE best_params
            names == ArrayParamNames(opt_mode)
        IN  /\ Len(r.sends) = Len(names)
            /\ Len(values) = Len(names)
            /\ \A i \in 1..Len(r.sends) :
                  /\ i <= Len(names)
                  /\ r.sends[i].name = names[i]
                  /\ r.sends[i].value = IF names[i] = "max_misses"
                                        THEN NInt(IntTrunc(values[i]))
                                        ELSE values[i]
            /\ r.ok = (\A i \in 1..Len(r.sends) : r.sends[i].ok)

\* all 22 parameters were sent although the control socket was not connected
C16_Witness ==
    /\ opc = "collect" /\ opt_mode = "all" /\ remote # <<>>
    /\ Len(remote[1].sends) = 22
    /\ \A i \in 1..22 : ~remote[1].sends[i].ok
    /\ ~remote[1].ok

C18_RunningOnlyInsideMinimize ==
    optimization_running <=> opc \in {"minimizing", "collect", "save_last", "save_best"}

\* an exception raised by a file write inside the objective has left optimize()
C18_Witness ==
    /\ opc = "raised" /\ endedBy = "OSError" /\ eval_count >= 1
    /\ ~optimization_running

\* C19 as claimed: the evaluations of a run never exceed its max_iterations
C19_EvaluationsWithinLimit ==
    opc # "idle" => eval_count <= max_iterations

\* C20 as claimed: when optimize() has returned, last_run.ini holds the mode
\* of the run as last_mode and the returned best score as last_score
C20_BestPersistedAtReturn ==
    opc = "returned" =>
        /\ last_run.exists /\ ~last_run.torn
        /\ HasOpt(last_run.secs, "optimization_meta", "last_mode")
        /\ GetOpt(last_run.secs, "optimization_meta", "last_mode") = <<"s", opt_mode>>
        /\ HasOpt(last_run.secs, "optimization_meta", "last_score")
        /\ GetOpt(last_run.secs, "optimization_meta", "last_score") = Fmt6(best_score)

C22_LockedPctOfExample ==
    [][(opc = "collect" /\ opc' # "collect" /\ opt_mode = "sync"
        /\ Len(sync_states) = 3
        /\ sync_states[1].state = "SEARCHING"
        /\ sync_states[2].state = "LOCKED"
        /\ sync_states[3].state = "LOCKED"
        /\ sync_states[2].timestamp = sync_states[1].timestamp + 10
        /\ sync_states[3].timestamp = sync_states[1].timestamp + 40) =>
            metrics'[1].locked_pct = Fin(75000, 0)]_vars

\* C23: the time_to_lock a sync evaluation reads is the time from the first
\* buffered sample to the first buffered LOCKED sample (0 when the first
\* sample is LOCKED) and +infinity when no buffered sample is LOCKED; from an
\* empty buffer it reads locked_pct = 0, state_changes = 0 and
\* time_to_lock = +infinity
C23_TimeToLock ==
    [][(opc = "collect" /\ opc' \in {"minimizing", "save_last"} /\ opt_mode = "sync") =>
        LET s == sync_states
            locked == {i \in 1..Len(s) : s[i].state = "LOCKED"}
            m == metrics'[1]
        IN  /\ s = <<>> =>
                  /\ m.locked_pct = Fin(0, 0)
                  /\ m.state_changes = 0
                  /\ m.time_to_lock = Inf
            /\ locked = {} => m.time_to_lock = Inf
            /\ \A i \in locked :
                  (\A j \in 1..(i - 1) : j \notin locked) =>
                      m.time_to_lock = Fin(1000 * (s[i].timestamp - s[1].timestamp), 0)
            /\ 1 \in locked => m.time_to_lock = Fin(0, 0)]_vars

\* an evaluation read a buffer whose first sample was SEARCHING and whose
\* first LOCKED sample came 10 s later, followed by another LOCKED sample
C23_Witness ==
    /\ opt_mode = "sync" /\ opc \in {"minimizing", "save_last"} /\ metrics # <<>>
    /\ Len(sync_states) = 3
    /\ sync_states[1].state = "SEARCHING"
    /\ sync_states[2].state = "LOCKED"
    /\ sync_states[3].state = "LOCKED"
    /\ sync_states[3].timestamp > sync_states[2].timestamp
    /\ metrics[1].time_to_lock = Fin(10000, 0)

\* C24: the metrics a marker evaluation reads have interval_error_sec = 60
\* and avg_interval_sec = 0 when fewer than two marker events are buffered
\* (count = 0 for none, duration_variance = 0 for fewer than two), and
\* otherwise interval_error_sec = |mean gap between consecutive event
\* timestamps - 60|
C24_MarkerIntervalError ==
    [][(opc = "collect" /\ opc' \in {"minimizing", "save_last"} /\ opt_mode = "marker") =>
        LET ev == marker_events
            n == Len(ev)
            m == metrics'[1]
            \* the gaps add up to the time from the first event to the last
            mean == NOver(NInt(ev[n].timestamp - ev[1].timestamp), n - 1)
        IN  /\ m.count = n
            /\ n < 2 =>
                  /\ m.interval_error_sec = Fin(60000, 0)
                  /\ m.avg_interval_sec = Fin(0, 0)
                  /\ m.duration_variance = Fin(0, 0)
            /\ n >= 2 =>
                  m.interval_error_sec =
                      IF NLt(mean, NInt(60)) THEN NSub(NInt(60), mean)
                      ELSE NSub(mean, NInt(60))]_vars

\* three markers 30 s and 60 s apart were read: the mean gap is 45 s
C24_Witness ==
    /\ opt_mode = "marker" /\ opc \in {"minimizing", "save_last"} /\ metrics # <<>>
    /\ Len(marker_events) = 3
    /\ marker_events[2].timestamp - marker_events[1].timestamp = 30
    /\ marker_events[3].timestamp - marker_events[2].timestamp = 60
    /\ metrics[1].count = 3
    /\ metrics[1].interval_error_sec = Fin(15000, 0)

\* C25 as claimed: every parameter of the latest save_to_ini call reads back
\* from last_run.ini within half a unit of the last place of its format:
\* half a millionth ("%.6f"), half a hundredth ("%.2f"), and one half for
\* max_misses, written as an integer
C25_RoundTripWithinRounding ==
    lastCall # <<>> =>
        LET mode == lastCall[1].mode
            names == GetParamNames(mode)
            vec == CandVec(mode, lastCall[1].k)
        IN  \A i \in 1..Len(names) :
                LET row == IniTable[CHOOSE r \in 1..Len(IniTable) : IniTable[r][3] = names[i]]
                    back == ParseFloat(GetOpt(last_run.secs, row[2], row[4]))[1]
                    twice == NDouble(NAbs(NSub(back, vec[i])))
                IN  IF names[i] = "max_misses" THEN NLe(twice, Fin(1000, 0))
                    ELSE IF row[5] = "f2" THEN NLe(twice, Fin(10, 0))
                    ELSE NLe(twice, Fin(0, 3))

\* C26 as claimed: with no clear in between, the marker buffer holds one entry
\* per MARK message stored as latest and the sync buffer one entry per SYNC
\* message stored as latest
C26_OneEntryPerStoredMessage ==
    LET Stored(channel) ==
            {i \in 1..Len(handled) :
                /\ handled[i].outcome = "stored"
                /\ handled[i].d.tokens[1].s = channel}
    IN  (opc = "idle" /\ evals = 0) =>
            /\ Len(marker_events) = Cardinality(Stored("MARK"))
            /\ Len(sync_states) = Cardinality(Stored("SYNC"))

\* C27: for every channel, latest holds the message of the most recently
\* received datagram of that channel that _parse_message turned into a
\* message, and no entry when there was none; and storing a message of one
\* channel leaves the entry of every other channel as it was
C27_LatestPerChannel ==
    /\ [](LET Stored(c) ==
                  {i \in 1..Len(handled) :
                      /\ handled[i].outcome = "stored"
                      /\ handled[i].d.tokens[1].s = c}
              Channels ==
                  {handled[i].d.tokens[1].s :
                      i \in {j \in 1..Len(handled) : handled[j].outcome = "stored"}}
          IN  /\ DOMAIN latest = Channels
              /\ \A c \in Channels :
                    LET last == CHOOSE i \in Stored(c) : \A j \in Stored(c) : j <= i
                    IN  /\ latest[c].channel = c
                        /\ latest[c].parsed = handled[last].parsed
                        /\ latest[c].data = FieldsOf(handled[last].d.tokens))
    /\ [][Len(handled') = Len(handled) + 1 =>
            \A c \in DOMAIN latest :
                (handled'[Len(handled')].outcome # "stored"
                 \/ handled'[Len(handled')].d.tokens[1].s # c) =>
                    (c \in DOMAIN latest' /\ latest'[c] = latest[c])]_vars

\* a SYNC message replaced the SYNC message received a second earlier
C27_Witness ==
    /\ Len(handled) = 2
    /\ handled[1].d = Sync("SEARCHING", Milli(100)) /\ handled[1].outcome = "stored"
    /\ handled[2].d = Sync("LOCKED", Milli(800)) /\ handled[2].outcome = "stored"
    /\ latest["SYNC"].parsed["state"].s = "LOCKED"
    /\ latest["SYNC"].timestamp = 1
    /\ sync_states[1].timestamp = 0

\* C28: within a run best_score never rises; it is the least score returned
\* so far by an evaluation that did not return the no-telemetry penalty
\* (+infinity when there is none) and best_params is the vector of the first
\* evaluation that returned that score (the initial vector when there is
\* none), so a run of penalties only keeps +infinity and the initial vector
C28_BestIsMinimumSoFar ==
    /\ [](opc # "idle" =>
            LET valid == {i \in 1..Len(results) : ~results[i].absent}
            IN  IF valid = {}
                THEN /\ best_score = Inf
                     /\ best_params =
                            [i \in 1..Len(GetBounds(opt_mode)) |->
                                NHalfSum(GetBounds(opt_mode)[i][1], GetBounds(opt_mode)[i][2])]
                     /\ results # <<>> => best_params = results[1].x
                ELSE \E b \in valid :
                        /\ \A j \in valid : NLe(results[b].score, results[j].score)
                        /\ \A j \in valid : j < b => NLt(results[b].score, results[j].score)
                        /\ best_score = results[b].score
                        /\ best_params = results[b].x)
    /\ [][runs' = runs => NLe(best_score', best_score)]_vars

\* the first evaluation of a run returned the penalty and left the best
\* alone, the second scored a CORR message and became the best
C28_Witness ==
    /\ opc = "minimizing" /\ Len(results) = 2 /\ eval_count = 2
    /\ results[1].absent /\ results[1].score = Fin(1000000, 0)
    /\ ~results[2].absent
    /\ best_score = results[2].score
    /\ best_params = results[2].x /\ best_params # results[1].x

C31_EvaluationTerminates ==
    /\ (opc = "collect") ~> (opc # "collect")
    /\ [](opc = "collect" =>
            /\ opt_mode = "marker" => clock - start_time < 180 + 60
            /\ opt_mode = "sync" => clock - start_time < 60 + 30)
    /\ [][(opc = "collect" /\ opt_mode = "marker" /\ Len(marker_events) >= 3) =>
            clock' = clock]_vars

\* a marker evaluation during which no marker arrived ended at its timeout
C31_Witness ==
    /\ opt_mode = "marker" /\ opc = "minimizing" /\ scored # <<>>
    /\ marker_events = <<>> /\ samples = 0
    /\ clock - start_time = 180

\* C32: from the call of optimize() on, the starting vector handed to the
\* minimizer is the list passed as initial_params, unchanged, or, when none
\* was passed, the midpoint (min + max) / 2 of each bound of PARAM_BOUNDS in
\* the order of the mode's parameter names; the best parameters are that
\* same vector until an evaluation has been scored, and the first evaluation
\* is of that vector
C32_StartingPoint ==
    opc \in {"minimizing", "collect", "save_last", "save_best", "returned"} =>
        LET names == GetParamNames(opt_mode)
            start == IF initial_params = <<>>
                     THEN [i \in 1..Len(names) |->
                              NHalfSum(PARAM_BOUNDS[names[i]][1],
                                       PARAM_BOUNDS[names[i]][2])]
                     ELSE initial_params[1]
        IN  /\ x0 = start
            /\ results = <<>> /\ opc # "save_last" => best_params = start
            /\ eval_count = 1 => cand = start
            /\ results # <<>> => results[1].x = start

\* a run begun without initial_params has scored its first evaluation
C32_Witness ==
    /\ initial_params = <<>> /\ opt_mode = "corr"
    /\ opc = "minimizing" /\ Len(results) = 1
    /\ x0 = <<Fin(725, 0), Fin(6000, 0)>>

\* C33 as claimed: when a marker evaluation that counted at least one marker
\* has read its metrics, the count does not exceed the expected number
\* floor(elapsed / 60) + 1, so that the detection penalty
\* (expected - count) * 100 is not negative
C33_CountWithinExpected ==
    (/\ opt_mode = "marker"
     /\ opc \in {"minimizing", "save_last", "save_best"}
     /\ metrics # <<>> /\ metrics[1].count >= 1) =>
        metrics[1].count <= ((clock - start_time) \div 60) + 1

\* C34 as claimed: each <mode>_best_score of optimized_params.ini is the
\* score achieved by the values stored in the sections of that mode; hence a
\* save_to_ini call of another mode and another score that leaves a mode's
\* best score as it was leaves the options of that mode's sections as they
\* were
C34_BestScoreDescribesSections ==
    [][\A m \in Modes :
          LET key == m \o "_best_score"
              secs == SelectSeq(TouchedSecs(m), LAMBDA sec : sec # "optimization_meta")
          IN  (/\ ini.exists /\ HasOpt(ini.secs, "optimization_meta", key)
               /\ calls' = calls + 1
               /\ lastCall'[1].mode # m
               /\ Fmt6(lastCall'[1].score) # GetOpt(ini.secs, "optimization_meta", key)
               /\ GetOpt(ini'.secs, "optimization_meta", key) =
                      GetOpt(ini.secs, "optimization_meta", key)) =>
                  \A i \in 1..Len(secs) :
                      HasSec(ini.secs, secs[i]) =>
                          ini'.secs[SecIdx(ini'.secs, secs[i])][2] =
                              ini.secs[SecIdx(ini.secs, secs[i])][2]]_vars

\* C35 as claimed: every value sent to the pipeline, and every value of the
\* best parameters, which are the ones persisted, lies within the [min, max]
\* of its parameter in PARAM_BOUNDS
C35_ValuesWithinBounds ==
    /\ remote # <<>> =>
          \A name \in DOMAIN remote[1].params :
              /\ NLe(PARAM_BOUNDS[name][1], remote[1].params[name])
              /\ NLe(remote[1].params[name], PARAM_BOUNDS[name][2])
    /\ \A i \in 1..Len(best_params) :
          /\ NLe(PARAM_BOUNDS[GetParamNames(opt_mode)[i]][1], best_params[i])
          /\ NLe(best_params[i], PARAM_BOUNDS[GetParamNames(opt_mode)[i]][2])

\* C36: no thread holds two of the listener's locks at once; a thread that
\* waits for a lock holds none, so that it waits for the lock of the buffer
\* it is about to use and for no other; and whenever a thread is inside a
\* method some thread can take its next step (no deadlock)
C36_OneLockAtATime ==
    /\ \A t \in DOMAIN held : Cardinality(held[t]) <= 1
    /\ \A t \in DOMAIN plan :
          (/\ plan[t] # <<>> /\ Head(plan[t])[1] = "acquire"
           /\ \E u \in DOMAIN held : Head(plan[t])[2] \in held[u]) => held[t] = {}
    /\ (\E t \in DOMAIN plan : plan[t] # <<>>) =>
          \E t \in DOMAIN plan :
              /\ plan[t] # <<>>
              /\ \/ Head(plan[t])[1] = "release"
                 \/ \A u \in DOMAIN held : Head(plan[t])[2] \notin held[u]

\* the receive thread appends a marker while the 't' command of the shell
\* is printing inside self.lock
C36_Witness ==
    /\ held["listener"] = {"marker_lock"}
    /\ held["main"] = {"lock"}

\* C37 as claimed: once stop() has closed the socket and set it to None, the
\* receive thread is not at a recvfrom call, which would be made on the
\* released socket, and it has no datagram in hand, which it would store
\* into the shared buffers
C37_ClosedAfterLoopLeft ==
    spc = "done" => lpc \notin {"recv", "handle"}

\* C38 as claimed: every response send_command returns for a command is the
\* server's reply to that command, whatever commands timed out before
C38_ReplyOfSameCommand ==
    \A i \in 1..Len(relay.returned) :
        relay.returned[i].reply # 0 =>
            relay.returned[i].reply = relay.returned[i].cmd

\* C39 as claimed: _send_command reports success only when the server
\* replied OK (with or without a value), PONG or BYE
C39_SuccessOnlyOnOkPongBye ==
    \A i \in 1..Len(sdr.returned) :
        sdr.returned[i].result.ok =>
            /\ sdr.returned[i].socket = "open"
            /\ ~sdr.returned[i].outcome.raised
            /\ sdr.returned[i].outcome.text \in
                   { <<"O", "K">>, <<"O", "K", " ", "7">>, <<"P", "O", "N", "G">>,
                     <<"B", "Y", "E">> }

=============================================================================
